---- MODULE Spec2Model ----
(***************************************************************************)
(* A model of the dungeon adventure game engine of src/game.js: the item   *)
(* and inventory model, the Player and Enemy stat model, the combat        *)
(* resolver, the scenario sequencer and the Game controller state machine. *)
(*                                                                         *)
(* Numbers that are fractional in the source (the enemy templates of the   *)
(* shadow path use 1.5 and 2.5 per level) are kept exact by storing the    *)
(* doubled value (strength2, agility2).  Math.random() is a draw r from    *)
(* RandomValues, in thousandths: r stands for the real number r / 1000.    *)
(* The two logs are kept as their numbers of entries.                      *)
(***************************************************************************)
EXTENDS Integers, Sequences, FiniteSets, TLC

\* ------------------------------------------------------------------------
\* Bounds of the model
\* ------------------------------------------------------------------------

\* Combat actions are resolved only while turnCount is below this cap:
\* MaxTurns in the playthrough with every key and every draw (Spec),
\* MaxFightTurns in the playthroughs of a player who fights to the end
\* (SpecLight, SpecDefeat).
MaxTurns == 2
MaxFightTurns == 14

\* the largest maxSlots of an Inventory built on its own
MaxUnitSlots == 3

\* the highest level of an Enemy built on its own
MaxUnitLevel == 2

\* the highest level a Player on its own is raised to
MaxUnitPlayerLevel == 3

\* the most turns ended in a CombatSystem on its own before an encounter starts
MaxUnitTurns == 3

\* ------------------------------------------------------------------------
\* CONFIG (game.js 7-14) and utility functions (game.js 31-37)
\* ------------------------------------------------------------------------

INVENTORY_SLOTS == 15
BASE_STAT_POINTS == 3
XP_CURVE_MULTIPLIER == 100
\* ESCAPE_BASE_CHANCE 0.3, in thousandths
ESCAPE_BASE_CHANCE == 300

Max(a, b) == IF a >= b THEN a ELSE b
Min(a, b) == IF a <= b THEN a ELSE b

\* The values Math.random() is drawn from, in thousandths: the least and the
\* greatest one.  They decide every comparison of a draw with a chance both
\* ways, reach every entry of a two-entry randomChoice, and give randomInt
\* its two extreme values.
RandomValues == {0, 999}

\* randomInt(min, max) = floor(random * (max - min + 1)) + min
randomInt(r, lo, hi) == ((r * (hi - lo + 1)) \div 1000) + lo

\* randomChoice(array) = array[floor(random * array.length)]  (1-based here)
randomChoice(r, array) == array[((r * Len(array)) \div 1000) + 1]

\* calculateXPForLevel(level) = floor(100 * level^1.5)
\*                            = floor(sqrt(100^2 * level^3))
calculateXPForLevel(level) ==
    LET n == XP_CURVE_MULTIPLIER * XP_CURVE_MULTIPLIER * level * level * level
    IN  CHOOSE k \in 0..(XP_CURVE_MULTIPLIER * level * level) :
            k * k <= n /\ n < (k + 1) * (k + 1)

\* ------------------------------------------------------------------------
\* Items (game.js 43-84)
\* ------------------------------------------------------------------------

Null == "null"

StatNames == {"strength", "defense", "agility", "intelligence"}

NoStats == [strength |-> 0, defense |-> 0, agility |-> 0, intelligence |-> 0]

ItemNames ==
    {"rustyDagger", "ironSword", "flameBlade", "shadowDagger",
     "leatherArmor", "chainmail", "crystalPlate",
     "healthPotion", "strengthElixir", "luckyCoin", "ancientTome"}

\* Item.type of each template
ItemType(item) ==
    CASE item \in {"rustyDagger", "ironSword", "flameBlade", "shadowDagger"} -> "weapon"
      [] item \in {"leatherArmor", "chainmail", "crystalPlate"} -> "armor"
      [] item \in {"healthPotion", "strengthElixir"} -> "consumable"
      [] item \in {"luckyCoin", "ancientTome"} -> "artifact"

\* Item.effect of the equippable templates, missing keys as 0
ItemEffect(item) ==
    CASE item = "rustyDagger"  -> [NoStats EXCEPT !.strength = 2]
      [] item = "ironSword"    -> [NoStats EXCEPT !.strength = 5]
      [] item = "flameBlade"   -> [NoStats EXCEPT !.strength = 8, !.intelligence = 3]
      [] item = "shadowDagger" -> [NoStats EXCEPT !.strength = 6, !.agility = 4]
      [] item = "leatherArmor" -> [NoStats EXCEPT !.defense = 3]
      [] item = "chainmail"    -> [NoStats EXCEPT !.defense = 6]
      [] item = "crystalPlate" -> [NoStats EXCEPT !.defense = 8, !.intelligence = 2]
      [] item = "luckyCoin"    -> [NoStats EXCEPT !.agility = 2]
      [] item = "ancientTome"  -> [NoStats EXCEPT !.intelligence = 4]
      [] OTHER -> NoStats

\* ------------------------------------------------------------------------
\* Inventory (game.js 86-153).  An inventory is a record
\*   [items: the held list, maxSlots, equipped: [weapon, armor, artifact]]
\* whose entries are item template names: two entries with the same name
\* are references to the same shared template.
\* ------------------------------------------------------------------------

Slots == {"weapon", "armor", "artifact"}

\* new Inventory(maxSlots)
NewInventory(maxSlots) ==
    [items |-> << >>,
     maxSlots |-> maxSlots,
     equipped |-> [weapon |-> Null, armor |-> Null, artifact |-> Null]]

Includes(items, item) == \E i \in 1..Len(items) : items[i] = item

\* items.indexOf(item), 1-based, 0 when absent
IndexOf(items, item) ==
    IF Includes(items, item)
    THEN CHOOSE i \in 1..Len(items) :
            items[i] = item /\ \A j \in 1..(i - 1) : items[j] # item
    ELSE 0

\* items.splice(index, 1)
SpliceOut(items, index) ==
    [j \in 1..(Len(items) - 1) |-> IF j < index THEN items[j] ELSE items[j + 1]]

\* the value addItem returns
addItemOk(inv, item) == ~(Len(inv.items) >= inv.maxSlots)

\* addItem without the test of the capacity
addItemNoLimit(inv, item) == [inv EXCEPT !.items = Append(inv.items, item)]

addItem(inv, item) ==
    IF Len(inv.items) >= inv.maxSlots
    THEN inv
    ELSE [inv EXCEPT !.items = Append(inv.items, item)]

removeItemOk(inv, item) == IndexOf(inv.items, item) > 0

removeItem(inv, item) ==
    IF IndexOf(inv.items, item) > 0
    THEN [inv EXCEPT !.items = SpliceOut(inv.items, IndexOf(inv.items, item))]
    ELSE inv

\* the slot equip() computes for an item: its type, or Null for a consumable
SlotOf(item) == IF ItemType(item) \in Slots THEN ItemType(item) ELSE Null

equipOk(inv, item) == Includes(inv.items, item) /\ SlotOf(item) # Null

\* equip without the test that the item is held
equipNotHeld(inv, item) ==
    IF SlotOf(item) = Null
    THEN inv
    ELSE LET slot == SlotOf(item)
             back == IF inv.equipped[slot] # Null
                     THEN addItem(inv, inv.equipped[slot])
                     ELSE inv
             put  == [back EXCEPT !.equipped[slot] = item]
         IN  removeItem(put, item)

\* equip that does not give the item of the slot back to the held list
equipDropsOld(inv, item) ==
    IF ~Includes(inv.items, item) \/ SlotOf(item) = Null
    THEN inv
    ELSE removeItem([inv EXCEPT !.equipped[SlotOf(item)] = item], item)

equip(inv, item) ==
    IF ~Includes(inv.items, item) \/ SlotOf(item) = Null
    THEN inv
    ELSE LET slot == SlotOf(item)
             back == IF inv.equipped[slot] # Null
                     THEN addItem(inv, inv.equipped[slot])
                     ELSE inv
             put  == [back EXCEPT !.equipped[slot] = item]
         IN  removeItem(put, item)

unequipOk(inv, slot) == inv.equipped[slot] # Null

\* unequip that clears the slot and does not give the item back
unequipNoReturn(inv, slot) ==
    IF inv.equipped[slot] # Null
    THEN [inv EXCEPT !.equipped[slot] = Null]
    ELSE inv

unequip(inv, slot) ==
    IF inv.equipped[slot] # Null
    THEN addItem([inv EXCEPT !.equipped[slot] = Null], inv.equipped[slot])
    ELSE inv

getEquippedStats(inv) ==
    [s \in StatNames |->
        (IF inv.equipped.weapon # Null THEN ItemEffect(inv.equipped.weapon)[s] ELSE 0)
      + (IF inv.equipped.armor # Null THEN ItemEffect(inv.equipped.armor)[s] ELSE 0)
      + (IF inv.equipped.artifact # Null THEN ItemEffect(inv.equipped.artifact)[s] ELSE 0)]

\* ------------------------------------------------------------------------
\* Player (game.js 159-261)
\* ------------------------------------------------------------------------

NewPlayer ==
    [level |-> 1, xp |-> 0, health |-> 100, maxHealth |-> 100,
     baseStats |-> [strength |-> 5, defense |-> 5, agility |-> 5, intelligence |-> 5],
     statPoints |-> 0,
     tempStats |-> NoStats,
     inventory |-> addItem(addItem(NewInventory(INVENTORY_SLOTS), "rustyDagger"),
                           "healthPotion"),
     chosenPath |-> Null]

getTotalStats(p) ==
    [s \in StatNames |->
        p.baseStats[s] + getEquippedStats(p.inventory)[s] + p.tempStats[s]]

\* levelUp without the heal
levelUpNoHeal(p) ==
    [p EXCEPT !.level = p.level + 1,
              !.statPoints = p.statPoints + BASE_STAT_POINTS,
              !.baseStats = [s \in StatNames |-> p.baseStats[s] + 1],
              !.maxHealth = p.maxHealth + 10]

levelUp(p) ==
    [p EXCEPT !.level = p.level + 1,
              !.statPoints = p.statPoints + BASE_STAT_POINTS,
              !.baseStats = [s \in StatNames |-> p.baseStats[s] + 1],
              !.maxHealth = p.maxHealth + 10,
              !.health = p.maxHealth + 10]

\* the value addXP returns: whether the player levelled up
addXPLevelsUp(p, amount) == p.xp + amount >= calculateXPForLevel(p.level + 1)

\* addXP that counts the amount twice
addXPTwice(p, amount) ==
    LET q == [p EXCEPT !.xp = p.xp + 2 * amount]
    IN  IF q.xp >= calculateXPForLevel(q.level + 1) THEN levelUp(q) ELSE q

addXP(p, amount) ==
    LET q == [p EXCEPT !.xp = p.xp + amount]
    IN  IF q.xp >= calculateXPForLevel(q.level + 1) THEN levelUp(q) ELSE q

allocateStatOk(p, stat) == p.statPoints > 0 /\ stat \in StatNames

\* allocateStat without the test of the points left
allocateStatNoPoints(p, stat) ==
    IF stat \in StatNames
    THEN [p EXCEPT !.baseStats[stat] = p.baseStats[stat] + 1,
                   !.statPoints = p.statPoints - 1]
    ELSE p

allocateStat(p, stat) ==
    IF p.statPoints > 0 /\ stat \in StatNames
    THEN [p EXCEPT !.baseStats[stat] = p.baseStats[stat] + 1,
                   !.statPoints = p.statPoints - 1]
    ELSE p

\* the damage without the floor of 1
PlayerDamageTakenNoFloor(p, amount) == amount - (getTotalStats(p).defense \div 2)

\* the value Player.takeDamage returns
PlayerDamageTaken(p, amount) ==
    LET reduction == getTotalStats(p).defense \div 2
    IN  Max(1, amount - reduction)

\* Player.takeDamage: the player after the damage
PlayerTakeDamage(p, amount) ==
    [p EXCEPT !.health = Max(0, p.health - PlayerDamageTaken(p, amount))]

\* Player.calculateDamage with the draw r of randomInt(-2, 3)
PlayerCalculateDamage(p, r) ==
    Max(1, getTotalStats(p).strength * 2 + randomInt(r, -2, 3))

\* Player.calculateSpecialDamage with the draw r of randomInt(-3, 5):
\* floor(strength + intelligence * 1.5 + variance)
PlayerCalculateSpecialDamage(p, r) ==
    LET stats == getTotalStats(p)
    IN  Max(1, stats.strength + ((stats.intelligence * 3) \div 2) + randomInt(r, -3, 5))

\* Player.getDodgeChance = min(0.4, agility * 0.02), in thousandths
PlayerDodgeChance(p) == Min(400, getTotalStats(p).agility * 20)

PlayerIsAlive(p) == p.health > 0

\* the health potion without its Math.min(player.maxHealth, ...)
useItemUnclamped(item, p) ==
    CASE item = "healthPotion" -> [p EXCEPT !.health = p.health + 30]
      [] item = "strengthElixir" ->
            [p EXCEPT !.tempStats.strength = p.tempStats.strength + 5]
      [] OTHER -> p

\* Item.use(player) for the two consumables (game.js 51-56, 72-79)
useItem(item, p) ==
    CASE item = "healthPotion" ->
            [p EXCEPT !.health = Min(p.maxHealth, p.health + 30)]
      [] item = "strengthElixir" ->
            [p EXCEPT !.tempStats.strength = p.tempStats.strength + 5]
      [] OTHER -> p

\* ------------------------------------------------------------------------
\* Enemy (game.js 267-373).  An enemy instance is a record
\*   [id, kind, level, health, maxHealth]; the fields the constructor copies
\* from the template and never changes are read through EnemyStats.
\* ------------------------------------------------------------------------

EnemyKinds ==
    {"goblin", "knight", "lightGuardian", "shadowBeast", "darkMage", "shadowLord"}

\* ENEMY_TEMPLATES: strength2 and agility2 are twice the strength and agility
EnemyStats(kind, level) ==
    CASE kind = "goblin" ->
            [name |-> "Goblin", type |-> "light",
             health |-> 30 + level * 5, strength2 |-> 2 * (3 + level),
             defense |-> 2 + level, agility2 |-> 2 * (4 + level),
             xpReward |-> 20 + level * 5, loot |-> <<"healthPotion">>]
      [] kind = "knight" ->
            [name |-> "Corrupted Knight", type |-> "light",
             health |-> 50 + level * 8, strength2 |-> 2 * (6 + level * 2),
             defense |-> 5 + level * 2, agility2 |-> 2 * (2 + level),
             xpReward |-> 40 + level * 8, loot |-> <<"ironSword", "chainmail">>]
      [] kind = "lightGuardian" ->
            [name |-> "Light Guardian", type |-> "light",
             health |-> 80 + level * 10, strength2 |-> 2 * (8 + level * 2),
             defense |-> 6 + level * 2, agility2 |-> 2 * (3 + level),
             xpReward |-> 60 + level * 10, loot |-> <<"flameBlade", "crystalPlate">>]
      [] kind = "shadowBeast" ->
            [name |-> "Shadow Beast", type |-> "shadow",
             health |-> 35 + level * 6, strength2 |-> 10 + level * 3,
             defense |-> 3 + level, agility2 |-> 12 + level * 3,
             xpReward |-> 25 + level * 6, loot |-> <<"healthPotion", "luckyCoin">>]
      [] kind = "darkMage" ->
            [name |-> "Dark Mage", type |-> "shadow",
             health |-> 40 + level * 7, strength2 |-> 2 * (4 + level),
             defense |-> 3 + level, agility2 |-> 2 * (5 + level),
             xpReward |-> 45 + level * 9, loot |-> <<"ancientTome", "strengthElixir">>]
      [] kind = "shadowLord" ->
            [name |-> "Shadow Lord", type |-> "shadow",
             health |-> 100 + level * 12, strength2 |-> 20 + level * 5,
             defense |-> 7 + level * 2, agility2 |-> 2 * (8 + level * 2),
             xpReward |-> 80 + level * 15, loot |-> <<"shadowDagger", "ancientTome">>]

\* new Enemy(...): health and maxHealth start at the template's health
NewEnemy(id, kind, level) ==
    [id |-> id, kind |-> kind, level |-> level,
     health |-> EnemyStats(kind, level).health,
     maxHealth |-> EnemyStats(kind, level).health]

StatsOf(e) == EnemyStats(e.kind, e.level)

\* the value Enemy.takeDamage returns
EnemyDamageTaken(e, amount) ==
    LET reduction == StatsOf(e).defense \div 2
    IN  Max(1, amount - reduction)

\* Enemy.takeDamage: the enemy after the damage
EnemyTakeDamage(e, amount) ==
    [e EXCEPT !.health = Max(0, e.health - EnemyDamageTaken(e, amount))]

\* Enemy.calculateDamage with the draw r of randomInt(-2, 2):
\* floor(strength * 1.5 + variance)
EnemyCalculateDamage(e, r) ==
    Max(1, ((StatsOf(e).strength2 * 3) \div 4) + randomInt(r, -2, 2))

EnemyIsAlive(e) == e.health > 0

\* Enemy.chooseAction with the draw r:
\*   health / maxHealth < 0.3 and r < 0.7 -> attack
\*   health / maxHealth > 0.7 and r < 0.3 -> special;  otherwise attack
chooseAction(p, r) ==
    IF p.health * 10 < 3 * p.maxHealth /\ r < 700 THEN "attack"
    ELSE IF p.health * 10 > 7 * p.maxHealth /\ r < 300 THEN "special"
    ELSE "attack"

\* Math.random() < enemy.getDodgeChance() * factor, with the dodge chance
\* min(0.3, agility * 0.015) and the factor halves/2:
\*   r / 1000 < min(0.3, agility2 * 0.0075) * halves / 2
\* (both sides times 8000)
EnemyDodges(e, r, halves) ==
    r * 8 < Min(1200, StatsOf(e).agility2 * 30) * halves

\* Math.random() < player.getDodgeChance() * tenths / 10
PlayerDodges(p, r, tenths) == r * 10 < PlayerDodgeChance(p) * tenths

\* ------------------------------------------------------------------------
\* The state of the Game object (game.js 725-746) and of the scheduler
\* ------------------------------------------------------------------------

VARIABLES
    state,              \* Game.state, one of GAME_STATES
    player,             \* Game.player
    scenarioManager,    \* [currentPath, scenarioIndex]
    currentEnemy,       \* Game.currentEnemy, NullEnemy for null
    currentScenario,    \* Game.currentScenario, NullScenario for null
    combatSystem,       \* [combatLog, playerTurn, turnCount]; combatLog is the
                        \* number of entries of the log
    selectedOption,
    inventorySelection,
    statSelection,
    messageLog,         \* the number of entries of Game.messageLog
    gameResult,         \* Null, "defeat", "Light" or "Shadow"
    timers,             \* the enemy-turn callbacks setTimeout holds pending
    unit                \* the object and the last call of a specification
                        \* that calls the methods of one class directly

vars ==
    <<state, player, scenarioManager, currentEnemy, currentScenario, combatSystem,
      selectedOption, inventorySelection, statSelection, messageLog, gameResult,
      timers, unit>>

GAME_STATES ==
    {"MENU", "EXPLORING", "COMBAT", "SCENARIO", "INVENTORY", "LEVEL_UP",
     "GAME_OVER", "VICTORY"}

\* the key names handleKeyPress distinguishes
Keys == {"ArrowUp", "ArrowDown", "Enter", "Escape", "i", "I"}

NullEnemy == [id |-> 0, kind |-> Null, level |-> 0, health |-> 0, maxHealth |-> 0]

NullScenario == [id |-> Null, combat |-> FALSE, isBoss |-> FALSE, enemy |-> NullEnemy]

\* a narrative node of SCENARIOS
Narrative(id) == [id |-> id, combat |-> FALSE, isBoss |-> FALSE, enemy |-> NullEnemy]

\* SCENARIOS[id].choices.length
ChoiceCount(id) == IF id = "entrance" THEN 2 ELSE 3

lightPathSequence == <<"lightShrine", "combat", "lightTreasure", "combat", "bossCombat">>

shadowPathSequence == <<"shadowRitual", "combat", "shadowAmbush", "combat", "bossCombat">>

\* The Game object as one record, so that the methods below are functions
\* from game to game.
Game ==
    [state |-> state, player |-> player, scenarioManager |-> scenarioManager,
     currentEnemy |-> currentEnemy, currentScenario |-> currentScenario,
     combatSystem |-> combatSystem, selectedOption |-> selectedOption,
     inventorySelection |-> inventorySelection, statSelection |-> statSelection,
     messageLog |-> messageLog, gameResult |-> gameResult, timers |-> timers]

\* new Game(canvas): game.js 725-746
NewGame ==
    [state |-> "MENU", player |-> NewPlayer,
     scenarioManager |-> [currentPath |-> Null, scenarioIndex |-> 0],
     currentEnemy |-> NullEnemy, currentScenario |-> NullScenario,
     combatSystem |-> [combatLog |-> 0, playerTurn |-> TRUE, turnCount |-> 0],
     selectedOption |-> 0, inventorySelection |-> 0, statSelection |-> 0,
     messageLog |-> 0, gameResult |-> Null, timers |-> 0]

\* Game.addMessage: push, and shift once the log holds more than 5
addMessage(g) == [g EXCEPT !.messageLog = Min(5, g.messageLog + 1)]

\* CombatSystem.addLog: push, and shift once the log holds more than 8
addLog(cs) == [cs EXCEPT !.combatLog = Min(8, cs.combatLog + 1)]

\* The enemy object of a combat scenario node and Game.currentEnemy are the
\* same object: a change of the enemy shows in both.
SetEnemy(g, e) ==
    [g EXCEPT !.currentEnemy = e,
              !.currentScenario =
                 IF g.currentScenario.combat /\ g.currentScenario.enemy.id = e.id
                 THEN [g.currentScenario EXCEPT !.enemy = e]
                 ELSE g.currentScenario]

\* ------------------------------------------------------------------------
\* CombatSystem (game.js 379-478)
\* ------------------------------------------------------------------------

\* CombatSystem.startCombat
\* startCombat giving the enemy the first turn on a tie as well
CombatStartOnTie(cs, p, enemy) ==
    LET started == addLog([combatLog |-> 0, playerTurn |-> TRUE, turnCount |-> 0])
    IN  IF StatsOf(enemy).agility2 >= 2 * getTotalStats(p).agility
        THEN addLog([started EXCEPT !.playerTurn = FALSE])
        ELSE started

CombatStart(cs, p, enemy) ==
    LET started == addLog([combatLog |-> 0, playerTurn |-> TRUE, turnCount |-> 0])
    IN  IF StatsOf(enemy).agility2 > 2 * getTotalStats(p).agility
        THEN addLog([started EXCEPT !.playerTurn = FALSE])
        ELSE started

\* endTurn that flips the owner and does not count the turn
endTurnUncounted(cs) == [cs EXCEPT !.playerTurn = ~cs.playerTurn]

\* endTurn that counts the turn and leaves its owner unchanged
endTurnSameOwner(cs) == [cs EXCEPT !.turnCount = cs.turnCount + 1]

endTurn(cs) ==
    [cs EXCEPT !.playerTurn = ~cs.playerTurn, !.turnCount = cs.turnCount + 1]

\* CombatSystem.playerAttack with the draws rDmg (variance) and rDodge
playerAttack(g, rDmg, rDodge) ==
    LET logged == [g EXCEPT !.combatSystem = addLog(g.combatSystem)]
    IN  IF EnemyDodges(g.currentEnemy, rDodge, 2)
        THEN logged
        ELSE SetEnemy(logged,
                EnemyTakeDamage(g.currentEnemy, PlayerCalculateDamage(g.player, rDmg)))

\* CombatSystem.playerSpecialAttack: the enemy dodges with half its chance
playerSpecialAttack(g, rDmg, rDodge) ==
    LET logged == [g EXCEPT !.combatSystem = addLog(g.combatSystem)]
    IN  IF EnemyDodges(g.currentEnemy, rDodge, 1)
        THEN logged
        ELSE SetEnemy(logged,
                EnemyTakeDamage(g.currentEnemy,
                                PlayerCalculateSpecialDamage(g.player, rDmg)))

\* CombatSystem.enemyTurn with the draws rAct (chooseAction), rDmg, rDodge
enemyTurn(g, rAct, rDmg, rDodge) ==
    LET logged == [g EXCEPT !.combatSystem = addLog(g.combatSystem)]
        base   == EnemyCalculateDamage(g.currentEnemy, rDmg)
    IN  IF chooseAction(g.player, rAct) = "special"
        THEN IF PlayerDodges(g.player, rDodge, 7)
             THEN logged
             ELSE [logged EXCEPT !.player = PlayerTakeDamage(g.player, (base * 3) \div 2)]
        ELSE IF PlayerDodges(g.player, rDodge, 10)
             THEN logged
             ELSE [logged EXCEPT !.player = PlayerTakeDamage(g.player, base)]

\* the value CombatSystem.attemptEscape returns, with the draw r:
\* Math.random() < 0.3 + agility * 0.02
escapeSucceeds(p, r) == r < ESCAPE_BASE_CHANCE + getTotalStats(p).agility * 20

\* ------------------------------------------------------------------------
\* Scenario choices (game.js 492-637) and ScenarioManager (game.js 639-718)
\* ------------------------------------------------------------------------

WithInventory(p, inv) == [p EXCEPT !.inventory = inv]

\* the choices with the costs of the shrine and the ritual not clamped
ChoiceActionUnclamped(g, id, index, r) ==
    LET p == g.player
    IN  CASE id = "entrance" /\ index = 0 ->
                [g EXCEPT !.player.chosenPath = "light",
                          !.scenarioManager.currentPath = "light"]
          [] id = "entrance" /\ index = 1 ->
                [g EXCEPT !.player.chosenPath = "shadow",
                          !.scenarioManager.currentPath = "shadow"]
          [] id = "lightShrine" /\ index = 0 ->
                [g EXCEPT !.player.health = p.health - 10,
                          !.player.baseStats.intelligence = p.baseStats.intelligence + 2]
          [] id = "lightShrine" /\ index = 1 ->
                IF r < 600
                THEN [g EXCEPT !.player.inventory = addItem(p.inventory, "healthPotion")]
                ELSE g
          [] id = "lightTreasure" /\ index = 0 ->
                [g EXCEPT !.player.inventory = addItem(p.inventory, "flameBlade")]
          [] id = "lightTreasure" /\ index = 1 ->
                [g EXCEPT !.player.inventory = addItem(p.inventory, "crystalPlate")]
          [] id = "lightTreasure" /\ index = 2 ->
                [g EXCEPT !.player = addXP(p, 30)]
          [] id = "shadowRitual" /\ index = 0 ->
                [g EXCEPT !.player.health = p.health - randomInt(r, 10, 20),
                          !.player.baseStats.strength = p.baseStats.strength + 3]
          [] id = "shadowRitual" /\ index = 1 ->
                [g EXCEPT !.player.baseStats.intelligence = p.baseStats.intelligence + 2,
                          !.player.inventory = addItem(p.inventory, "ancientTome")]
          [] id = "shadowRitual" /\ index = 2 ->
                [g EXCEPT !.player = addXP(p, 40)]
          [] id = "shadowAmbush" /\ index = 0 ->
                [g EXCEPT !.player.tempStats.defense = p.tempStats.defense + 3]
          [] id = "shadowAmbush" /\ index = 1 ->
                IF getTotalStats(p).agility >= 10
                THEN [g EXCEPT !.player = addXP(p, 50)]
                ELSE g
          [] OTHER -> g

\* choices[index].action(game) of the narrative node id, with the draw r
ChoiceAction(g, id, index, r) ==
    LET p == g.player
    IN  CASE id = "entrance" /\ index = 0 ->
                [g EXCEPT !.player.chosenPath = "light",
                          !.scenarioManager.currentPath = "light"]
          [] id = "entrance" /\ index = 1 ->
                [g EXCEPT !.player.chosenPath = "shadow",
                          !.scenarioManager.currentPath = "shadow"]
          [] id = "lightShrine" /\ index = 0 ->
                [g EXCEPT !.player.health = Max(1, p.health - 10),
                          !.player.baseStats.intelligence = p.baseStats.intelligence + 2]
          [] id = "lightShrine" /\ index = 1 ->
                IF r < 600
                THEN [g EXCEPT !.player.inventory = addItem(p.inventory, "healthPotion")]
                ELSE g
          [] id = "lightTreasure" /\ index = 0 ->
                [g EXCEPT !.player.inventory = addItem(p.inventory, "flameBlade")]
          [] id = "lightTreasure" /\ index = 1 ->
                [g EXCEPT !.player.inventory = addItem(p.inventory, "crystalPlate")]
          [] id = "lightTreasure" /\ index = 2 ->
                [g EXCEPT !.player = addXP(p, 30)]
          [] id = "shadowRitual" /\ index = 0 ->
                [g EXCEPT !.player.health = Max(1, p.health - randomInt(r, 10, 20)),
                          !.player.baseStats.strength = p.baseStats.strength + 3]
          [] id = "shadowRitual" /\ index = 1 ->
                [g EXCEPT !.player.baseStats.intelligence = p.baseStats.intelligence + 2,
                          !.player.inventory = addItem(p.inventory, "ancientTome")]
          [] id = "shadowRitual" /\ index = 2 ->
                [g EXCEPT !.player = addXP(p, 40)]
          [] id = "shadowAmbush" /\ index = 0 ->
                [g EXCEPT !.player.tempStats.defense = p.tempStats.defense + 3]
          [] id = "shadowAmbush" /\ index = 1 ->
                IF getTotalStats(p).agility >= 10
                THEN [g EXCEPT !.player = addXP(p, 50)]
                ELSE g
          [] OTHER -> g

PathSequence(path) == IF path = "light" THEN lightPathSequence ELSE shadowPathSequence

\* createCombatScenario drawing from the enemies of the other path
createCombatScenarioOtherPath(g, r) ==
    LET enemyType == IF g.scenarioManager.currentPath = "light"
                     THEN randomChoice(r, <<"shadowBeast", "darkMage">>)
                     ELSE randomChoice(r, <<"goblin", "knight">>)
    IN  [id |-> "combat", combat |-> TRUE, isBoss |-> FALSE,
         enemy |-> NewEnemy(g.scenarioManager.scenarioIndex, enemyType, g.player.level)]

\* ScenarioManager.createCombatScenario with the draw r of randomChoice; the
\* new enemy instance is identified by the index it is created at
createCombatScenario(g, r) ==
    LET enemyType == IF g.scenarioManager.currentPath = "light"
                     THEN randomChoice(r, <<"goblin", "knight">>)
                     ELSE randomChoice(r, <<"shadowBeast", "darkMage">>)
    IN  [id |-> "combat", combat |-> TRUE, isBoss |-> FALSE,
         enemy |-> NewEnemy(g.scenarioManager.scenarioIndex, enemyType, g.player.level)]

createBossScenario(g) ==
    LET bossType == IF g.scenarioManager.currentPath = "light"
                    THEN "lightGuardian" ELSE "shadowLord"
    IN  [id |-> "bossCombat", combat |-> TRUE, isBoss |-> TRUE,
         enemy |-> NewEnemy(g.scenarioManager.scenarioIndex, bossType, g.player.level + 1)]

\* ScenarioManager.getNextScenario: the game with the index advanced ...
\* getNextScenario advancing the index without the test for the end
getNextScenarioGameNoEnd(g) ==
    IF g.scenarioManager.currentPath = Null THEN g
    ELSE [g EXCEPT !.scenarioManager.scenarioIndex = g.scenarioManager.scenarioIndex + 1]

getNextScenarioGame(g) ==
    IF g.scenarioManager.currentPath = Null THEN g
    ELSE IF g.scenarioManager.scenarioIndex >= Len(PathSequence(g.scenarioManager.currentPath))
    THEN g
    ELSE [g EXCEPT !.scenarioManager.scenarioIndex = g.scenarioManager.scenarioIndex + 1]

\* ... and the scenario it returns, NullScenario for null
getNextScenario(g, r) ==
    IF g.scenarioManager.currentPath = Null THEN Narrative("entrance")
    ELSE LET sequence == PathSequence(g.scenarioManager.currentPath)
             index    == g.scenarioManager.scenarioIndex
         IN  IF index >= Len(sequence) THEN NullScenario
             ELSE LET scenarioType == sequence[index + 1]
                      advanced     == getNextScenarioGame(g)
                  IN  IF scenarioType = "combat" THEN createCombatScenario(advanced, r)
                      ELSE IF scenarioType = "bossCombat" THEN createBossScenario(advanced)
                      ELSE Narrative(scenarioType)

\* ScenarioManager.reset
resetScenarioManager == [currentPath |-> Null, scenarioIndex |-> 0]

\* ------------------------------------------------------------------------
\* Game (game.js 748-991)
\* ------------------------------------------------------------------------

\* victory with the path of the result taken from the wrong branch
victoryOtherPath(g) ==
    [g EXCEPT !.state = "VICTORY",
              !.gameResult = IF g.scenarioManager.currentPath = "light"
                             THEN "Shadow" ELSE "Light"]

victory(g) ==
    [g EXCEPT !.state = "VICTORY",
              !.gameResult = IF g.scenarioManager.currentPath = "light"
                             THEN "Light" ELSE "Shadow"]

gameOver(g) == [g EXCEPT !.state = "GAME_OVER", !.gameResult = "defeat"]

\* startGame that leaves the selection where it is
startGameKeepsSelection(g) ==
    [g EXCEPT !.player = NewPlayer,
              !.scenarioManager = resetScenarioManager,
              !.messageLog = 0,
              !.currentScenario = Narrative("entrance"),
              !.state = "SCENARIO"]

startGame(g) ==
    [g EXCEPT !.player = NewPlayer,
              !.scenarioManager = resetScenarioManager,
              !.messageLog = 0,
              !.currentScenario = Narrative("entrance"),
              !.state = "SCENARIO",
              !.selectedOption = 0]

\* reset that leaves the scenario manager as it is
resetKeepsPath(g) ==
    [g EXCEPT !.state = "MENU",
              !.player = NewPlayer,
              !.currentEnemy = NullEnemy,
              !.currentScenario = NullScenario,
              !.messageLog = 0,
              !.gameResult = Null]

reset(g) ==
    [g EXCEPT !.state = "MENU",
              !.player = NewPlayer,
              !.scenarioManager = resetScenarioManager,
              !.currentEnemy = NullEnemy,
              !.currentScenario = NullScenario,
              !.messageLog = 0,
              !.gameResult = Null]

\* proceedToNextScenario that leaves the selection where it is
proceedToNextScenarioKeepsSelection(g, r) ==
    LET nextScenario == getNextScenario(g, r)
        advanced     == getNextScenarioGame(g)
    IN  IF nextScenario = NullScenario
        THEN victory(advanced)
        ELSE [advanced EXCEPT !.currentScenario = nextScenario,
                              !.state = "SCENARIO"]

\* Game.proceedToNextScenario with the draw r of the next node
proceedToNextScenario(g, r) ==
    LET nextScenario == getNextScenario(g, r)
        advanced     == getNextScenarioGame(g)
    IN  IF nextScenario = NullScenario
        THEN victory(advanced)
        ELSE [advanced EXCEPT !.currentScenario = nextScenario,
                              !.state = "SCENARIO",
                              !.selectedOption = 0]

\* Game.startCombat
startCombat(g, enemy) ==
    [g EXCEPT !.currentEnemy = enemy,
              !.combatSystem = CombatStart(g.combatSystem, g.player, enemy),
              !.state = "COMBAT",
              !.selectedOption = 0]

\* endCombat that leaves the temporary stats as they are
endCombatKeepsTempStats(g, won, rLoot, rNext) ==
    LET xpGained  == StatsOf(g.currentEnemy).xpReward
        leveledUp == addXPLevelsUp(g.player, xpGained)
        loot      == randomChoice(rLoot, StatsOf(g.currentEnemy).loot)
        found     == addItemOk(g.player.inventory, loot)
        rewarded  == [addMessage(g) EXCEPT
                         !.player = WithInventory(addXP(g.player, xpGained),
                                                  addItem(g.player.inventory, loot))]
        looted    == IF found THEN addMessage(rewarded) ELSE rewarded
        leave(h)  == proceedToNextScenario(
                        [h EXCEPT !.currentEnemy = NullEnemy], rNext)
    IN  IF ~won THEN leave(g)
        ELSE IF leveledUp
        THEN [looted EXCEPT !.state = "LEVEL_UP", !.statSelection = 0]
        ELSE IF looted.currentScenario # NullScenario /\ looted.currentScenario.isBoss
        THEN victory(looted)
        ELSE leave(looted)

\* Game.endCombat with the draws rLoot (the loot) and rNext (the next node)
endCombat(g, won, rLoot, rNext) ==
    LET xpGained  == StatsOf(g.currentEnemy).xpReward
        leveledUp == addXPLevelsUp(g.player, xpGained)
        loot      == randomChoice(rLoot, StatsOf(g.currentEnemy).loot)
        found     == addItemOk(g.player.inventory, loot)
        rewarded  == [addMessage(g) EXCEPT
                         !.player = WithInventory(addXP(g.player, xpGained),
                                                  addItem(g.player.inventory, loot))]
        looted    == IF found THEN addMessage(rewarded) ELSE rewarded
        leave(h)  == proceedToNextScenario(
                        [h EXCEPT !.currentEnemy = NullEnemy,
                                  !.player.tempStats = NoStats], rNext)
    IN  IF ~won THEN leave(g)
        ELSE IF leveledUp
        THEN [looted EXCEPT !.state = "LEVEL_UP", !.statSelection = 0]
        ELSE IF looted.currentScenario # NullScenario /\ looted.currentScenario.isBoss
        THEN victory(looted)
        ELSE leave(looted)

\* checkCombatEnd that schedules an enemy turn whoever owns the turn
checkCombatEndAlwaysSchedules(g, rLoot, rNext) ==
    IF ~EnemyIsAlive(g.currentEnemy) THEN endCombat(g, TRUE, rLoot, rNext)
    ELSE IF ~PlayerIsAlive(g.player) THEN gameOver(g)
    ELSE [g EXCEPT !.timers = g.timers + 1]

\* checkCombatEnd without the test of the player's death
checkCombatEndNoDeath(g, rLoot, rNext) ==
    IF ~EnemyIsAlive(g.currentEnemy) THEN endCombat(g, TRUE, rLoot, rNext)
    ELSE IF ~g.combatSystem.playerTurn THEN [g EXCEPT !.timers = g.timers + 1]
    ELSE g

\* Game.checkCombatEnd; scheduling the enemy turn adds a pending callback
checkCombatEnd(g, rLoot, rNext) ==
    IF ~EnemyIsAlive(g.currentEnemy) THEN endCombat(g, TRUE, rLoot, rNext)
    ELSE IF ~PlayerIsAlive(g.player) THEN gameOver(g)
    ELSE IF ~g.combatSystem.playerTurn THEN [g EXCEPT !.timers = g.timers + 1]
    ELSE g

WithEndTurn(g) == [g EXCEPT !.combatSystem = endTurn(g.combatSystem)]

\* executeCombatAction with Use Item ending the player's turn
executeCombatActionItemTurn(g, actionIndex, rs) ==
    CASE actionIndex = 0 ->
            checkCombatEnd(WithEndTurn(playerAttack(g, rs[1], rs[2])), rs[3], rs[4])
      [] actionIndex = 1 ->
            checkCombatEnd(WithEndTurn(playerSpecialAttack(g, rs[1], rs[2])), rs[3], rs[4])
      [] actionIndex = 2 ->
            checkCombatEnd(WithEndTurn([g EXCEPT !.state = "INVENTORY",
                                                 !.inventorySelection = 0]),
                           rs[3], rs[4])
      [] actionIndex = 3 ->
            LET logged == [g EXCEPT !.combatSystem = addLog(g.combatSystem)]
            IN  IF escapeSucceeds(g.player, rs[1])
                THEN endCombat(logged, FALSE, rs[3], rs[4])
                ELSE checkCombatEnd(WithEndTurn(logged), rs[3], rs[4])
      [] OTHER -> checkCombatEnd(g, rs[3], rs[4])

\* Game.executeCombatAction with the draws rs: rs[1], rs[2] for the action,
\* rs[3], rs[4] for the end of the combat
executeCombatAction(g, actionIndex, rs) ==
    CASE actionIndex = 0 ->
            checkCombatEnd(WithEndTurn(playerAttack(g, rs[1], rs[2])), rs[3], rs[4])
      [] actionIndex = 1 ->
            checkCombatEnd(WithEndTurn(playerSpecialAttack(g, rs[1], rs[2])), rs[3], rs[4])
      [] actionIndex = 2 ->
            [g EXCEPT !.state = "INVENTORY", !.inventorySelection = 0]
      [] actionIndex = 3 ->
            LET logged == [g EXCEPT !.combatSystem = addLog(g.combatSystem)]
            IN  IF escapeSucceeds(g.player, rs[1])
                THEN endCombat(logged, FALSE, rs[3], rs[4])
                ELSE checkCombatEnd(WithEndTurn(logged), rs[3], rs[4])
      [] OTHER -> checkCombatEnd(g, rs[3], rs[4])

\* Game.handleScenarioInput with the draws rs[1] (the choice's action) and
\* rs[4] (the next node)
handleScenarioInput(g, key, rs) ==
    IF g.currentScenario = NullScenario THEN g
    ELSE IF g.currentScenario.combat
    THEN IF key = "Enter" THEN startCombat(g, g.currentScenario.enemy) ELSE g
    ELSE LET count == ChoiceCount(g.currentScenario.id)
         IN  CASE key = "ArrowUp" ->
                    [g EXCEPT !.selectedOption = Max(0, g.selectedOption - 1)]
               [] key = "ArrowDown" ->
                    [g EXCEPT !.selectedOption = Min(count - 1, g.selectedOption + 1)]
               [] key = "Enter" /\ g.selectedOption \in 0..(count - 1) ->
                    LET acted == ChoiceAction(g, g.currentScenario.id,
                                              g.selectedOption, rs[1])
                    IN  proceedToNextScenario(
                            [addMessage(acted) EXCEPT !.selectedOption = 0], rs[4])
               [] OTHER -> g

\* handleCombatInput without the test of the turn owner
handleCombatInputAnyTurn(g, key, rs) ==
    CASE key = "ArrowUp" ->
            [g EXCEPT !.selectedOption = Max(0, g.selectedOption - 1)]
      [] key = "ArrowDown" ->
            [g EXCEPT !.selectedOption = Min(3, g.selectedOption + 1)]
      [] key = "Enter" -> executeCombatAction(g, g.selectedOption, rs)
      [] OTHER -> g

\* Game.handleCombatInput
handleCombatInput(g, key, rs) ==
    IF ~g.combatSystem.playerTurn THEN g
    ELSE CASE key = "ArrowUp" ->
                [g EXCEPT !.selectedOption = Max(0, g.selectedOption - 1)]
           [] key = "ArrowDown" ->
                [g EXCEPT !.selectedOption = Min(3, g.selectedOption + 1)]
           [] key = "Enter" -> executeCombatAction(g, g.selectedOption, rs)
           [] OTHER -> g

\* handleInventoryInput whose closing keys return to the encounter
handleInventoryInputToCombat(g, key) ==
    LET allItems == g.player.inventory.items
    IN  CASE key = "ArrowUp" ->
                [g EXCEPT !.inventorySelection = Max(0, g.inventorySelection - 1)]
          [] key = "ArrowDown" ->
                [g EXCEPT !.inventorySelection =
                              Min(Len(allItems) - 1, g.inventorySelection + 1)]
          [] key = "Enter" ->
                IF g.inventorySelection + 1 \in 1..Len(allItems)
                THEN LET item == allItems[g.inventorySelection + 1]
                     IN  IF ItemType(item) = "consumable"
                         THEN [addMessage(g) EXCEPT
                                  !.player = WithInventory(
                                      useItem(item, g.player),
                                      removeItem(g.player.inventory, item))]
                         ELSE [addMessage(g) EXCEPT
                                  !.player.inventory = equip(g.player.inventory, item)]
                ELSE g
          [] key \in {"Escape", "i", "I"} ->
                [g EXCEPT !.state = IF g.currentEnemy = NullEnemy
                                    THEN "EXPLORING" ELSE "COMBAT"]
          [] OTHER -> g

\* Game.handleInventoryInput
handleInventoryInput(g, key) ==
    LET allItems == g.player.inventory.items
    IN  CASE key = "ArrowUp" ->
                [g EXCEPT !.inventorySelection = Max(0, g.inventorySelection - 1)]
          [] key = "ArrowDown" ->
                [g EXCEPT !.inventorySelection =
                              Min(Len(allItems) - 1, g.inventorySelection + 1)]
          [] key = "Enter" ->
                IF g.inventorySelection + 1 \in 1..Len(allItems)
                THEN LET item == allItems[g.inventorySelection + 1]
                     IN  IF ItemType(item) = "consumable"
                         THEN [addMessage(g) EXCEPT
                                  !.player = WithInventory(
                                      useItem(item, g.player),
                                      removeItem(g.player.inventory, item))]
                         ELSE [addMessage(g) EXCEPT
                                  !.player.inventory = equip(g.player.inventory, item)]
                ELSE g
          [] key \in {"Escape", "i", "I"} -> [g EXCEPT !.state = "EXPLORING"]
          [] OTHER -> g

LevelUpStats == <<"strength", "defense", "agility", "intelligence">>

\* Game.handleLevelUpInput
handleLevelUpInput(g, key) ==
    IF g.player.statPoints = 0
    THEN IF key = "Enter" THEN [g EXCEPT !.state = "EXPLORING"] ELSE g
    ELSE CASE key = "ArrowUp" ->
                [g EXCEPT !.statSelection = Max(0, g.statSelection - 1)]
           [] key = "ArrowDown" ->
                [g EXCEPT !.statSelection = Min(Len(LevelUpStats) - 1, g.statSelection + 1)]
           [] key = "Enter" ->
                LET allocated == [addMessage(g) EXCEPT
                                     !.player = allocateStat(g.player,
                                                    LevelUpStats[g.statSelection + 1])]
                IN  IF allocated.player.statPoints = 0
                    THEN addMessage(allocated) ELSE allocated
           [] OTHER -> g

\* Game.handleKeyPress for a key event the debounce lets through
handleKeyPress(g, key, rs) ==
    CASE g.state = "MENU" -> IF key = "Enter" THEN startGame(g) ELSE g
      [] g.state = "EXPLORING" ->
            IF key \in {"i", "I"}
            THEN [g EXCEPT !.state = "INVENTORY", !.inventorySelection = 0]
            ELSE g
      [] g.state = "SCENARIO" -> handleScenarioInput(g, key, rs)
      [] g.state = "COMBAT" -> handleCombatInput(g, key, rs)
      [] g.state = "INVENTORY" -> handleInventoryInput(g, key)
      [] g.state = "LEVEL_UP" -> handleLevelUpInput(g, key)
      [] g.state \in {"GAME_OVER", "VICTORY"} -> IF key = "Enter" THEN reset(g) ELSE g

\* the callback checkCombatEnd hands to setTimeout (game.js 904-908); with
\* no current enemy its first statement throws and nothing changes
enemyTurnCallback(g, rs) ==
    LET fired == [g EXCEPT !.timers = g.timers - 1]
    IN  IF g.currentEnemy = NullEnemy THEN fired
        ELSE checkCombatEnd(WithEndTurn(enemyTurn(fired, rs[1], rs[2], rs[5])),
                            rs[3], rs[4])

\* ------------------------------------------------------------------------
\* The playthrough: key events and timer firings from the menu.
\*
\* One event reads at most five draws of Math.random(), rs[1..5]:
\*   a key event    rs[1] the variance of the player's damage, the escape
\*                        roll, or the roll of a narrative choice
\*                  rs[2] the enemy's dodge roll
\*                  rs[3] the loot, rs[4] the enemy type of the next node
\*   a timer firing rs[1] the enemy's action, rs[2] the variance of its
\*                        damage, rs[5] the player's dodge roll
\* ------------------------------------------------------------------------

SetGame(g) ==
    /\ state' = g.state
    /\ player' = g.player
    /\ scenarioManager' = g.scenarioManager
    /\ currentEnemy' = g.currentEnemy
    /\ currentScenario' = g.currentScenario
    /\ combatSystem' = g.combatSystem
    /\ selectedOption' = g.selectedOption
    /\ inventorySelection' = g.inventorySelection
    /\ statSelection' = g.statSelection
    /\ messageLog' = g.messageLog
    /\ gameResult' = g.gameResult
    /\ timers' = g.timers

Draws == [1..5 -> RandomValues]

\* the games a key event can lead to, over the draws D; only Enter reaches a
\* call of Math.random (the other keys move a cursor or switch the screen),
\* so one draw stands for all with them
KeyOutcomes(g, key, D) ==
    IF key = "Enter"
    THEN { handleKeyPress(g, key, rs) : rs \in D }
    ELSE { handleKeyPress(g, key, CHOOSE rs \in D : TRUE) }

\* the games a firing of the enemy-turn callback can lead to, over the draws D
TimerOutcomes(g, D) == { enemyTurnCallback(g, rs) : rs \in D }

\* a key that resolves a combat action (and so ends a turn or the combat)
ResolvesAction(key) ==
    /\ state = "COMBAT" /\ combatSystem.playerTurn /\ key = "Enter"
    /\ selectedOption # 2

NoUnit == [op |-> Null]

\* the Game object right after construction
InitGame ==
    /\ state = NewGame.state
    /\ player = NewGame.player
    /\ scenarioManager = NewGame.scenarioManager
    /\ currentEnemy = NewGame.currentEnemy
    /\ currentScenario = NewGame.currentScenario
    /\ combatSystem = NewGame.combatSystem
    /\ selectedOption = NewGame.selectedOption
    /\ inventorySelection = NewGame.inventorySelection
    /\ statSelection = NewGame.statSelection
    /\ messageLog = NewGame.messageLog
    /\ gameResult = NewGame.gameResult
    /\ timers = NewGame.timers

Init == InitGame /\ unit = NoUnit

\* a key event, with the draws D and the cap on the turns of an encounter
KeyEvent(key, D, cap) ==
    /\ ResolvesAction(key) => combatSystem.turnCount < cap
    /\ \E g \in KeyOutcomes(Game, key, D) : SetGame(g)
    /\ UNCHANGED unit

\* a firing of a pending enemy-turn callback
TimerEvent(D, cap) ==
    /\ timers > 0
    /\ combatSystem.turnCount < cap
    /\ \E g \in TimerOutcomes(Game, D) : SetGame(g)
    /\ UNCHANGED unit

\* Spec: every key at every moment, every draw; encounters of MaxTurns turns
KeyPress(key) == KeyEvent(key, Draws, MaxTurns)

EnemyTurnTimer == TimerEvent(Draws, MaxTurns)

Next == (\E key \in Keys : KeyPress(key)) \/ EnemyTurnTimer

Spec == Init /\ [][Next]_vars

\* ------------------------------------------------------------------------
\* The playthroughs of a player who fights every encounter to the end: in
\* combat the player confirms only Attack and Special Attack.
\* ------------------------------------------------------------------------

\* the key events of such a player
FightKey(key) ==
    ~(state = "COMBAT" /\ key = "Enter" /\ selectedOption \in {2, 3})

\* SpecLight: the player takes the Path of Light; no attack of the player
\* is dodged and the player dodges every attack.
LightDraws == { rs \in Draws : rs[2] = 999 /\ rs[5] = 0 }

LightKeyPress(key) ==
    /\ FightKey(key)
    /\ ~(state = "SCENARIO" /\ currentScenario.id = "entrance"
            /\ key = "Enter" /\ selectedOption = 1)
    /\ KeyEvent(key, LightDraws, MaxFightTurns)

LightEnemyTurnTimer == TimerEvent(LightDraws, MaxFightTurns)

NextLight == (\E key \in Keys : LightKeyPress(key)) \/ LightEnemyTurnTimer

SpecLight == Init /\ [][NextLight]_vars

\* SpecDefeat: the player dodges no attack.  An event draws one value for
\* its first two rolls (an attack of the player is dodged, or hits with the
\* highest variance; the enemy's action and the variance of its damage go
\* together); the loot and the enemy type of a node come from the low draw.
DefeatDraws ==
    { rs \in Draws : rs[5] = 999 /\ rs[1] = rs[2] /\ rs[3] = 0 /\ rs[4] = 0 }

DefeatKeyPress(key) ==
    /\ FightKey(key)
    /\ KeyEvent(key, DefeatDraws, MaxFightTurns)

DefeatEnemyTurnTimer == TimerEvent(DefeatDraws, MaxFightTurns)

NextDefeat == (\E key \in Keys : DefeatKeyPress(key)) \/ DefeatEnemyTurnTimer

SpecDefeat == Init /\ [][NextDefeat]_vars

\* ------------------------------------------------------------------------
\* SpecLoot: the playthroughs of SpecLight in which the player may also
\* open the inventory (Use Item) before the first turn of an encounter and
\* use or equip there what the path has yielded so far: the starting items,
\* the finds of the shrine and the treasure node and the loot of the
\* encounters won.
\* ------------------------------------------------------------------------

LootKey(key) ==
    ~(/\ state = "COMBAT" /\ key = "Enter"
      /\ \/ selectedOption = 3
         \/ selectedOption = 2 /\ combatSystem.turnCount > 0)

LootKeyPress(key) ==
    /\ LootKey(key)
    /\ ~(state = "SCENARIO" /\ currentScenario.id = "entrance"
            /\ key = "Enter" /\ selectedOption = 1)
    /\ KeyEvent(key, LightDraws, MaxFightTurns)

LootEnemyTurnTimer == TimerEvent(LightDraws, MaxFightTurns)

NextLoot == (\E key \in Keys : LootKeyPress(key)) \/ LootEnemyTurnTimer

SpecLoot == Init /\ [][NextLoot]_vars

\* ------------------------------------------------------------------------
\* SpecInv: an Inventory object on its own (game.js 86-153), built by
\* new Inventory(maxSlots) and driven by any sequence of addItem, removeItem,
\* equip and unequip calls with items of the shared templates.  unit holds
\* the inventory after the last call (inv), the inventory before it
\* (before), the call (op, arg) and the value it returned (ok).
\* ------------------------------------------------------------------------

GameVars ==
    <<state, player, scenarioManager, currentEnemy, currentScenario,
      combatSystem, selectedOption, inventorySelection, statSelection,
      messageLog, gameResult, timers>>

\* the templates the calls draw their items from: two weapons, an armor
\* and a consumable
UnitItems == {"ironSword", "flameBlade", "chainmail", "healthPotion"}

InvCall(op, arg, ok, inv) ==
    /\ unit' = [op |-> op, arg |-> arg, ok |-> ok, before |-> unit.inv, inv |-> inv]
    /\ UNCHANGED GameVars

InitInv ==
    /\ InitGame
    /\ \E n \in 1..MaxUnitSlots :
          unit = [op |-> "new", arg |-> Null, ok |-> TRUE,
                  before |-> NewInventory(n), inv |-> NewInventory(n)]

InvAddItem(item) ==
    InvCall("addItem", item, addItemOk(unit.inv, item), addItem(unit.inv, item))

InvRemoveItem(item) ==
    InvCall("removeItem", item, removeItemOk(unit.inv, item), removeItem(unit.inv, item))

InvEquip(item) ==
    InvCall("equip", item, equipOk(unit.inv, item), equip(unit.inv, item))

InvUnequip(slot) ==
    InvCall("unequip", slot, unequipOk(unit.inv, slot), unequip(unit.inv, slot))

NextInv ==
    \/ \E item \in UnitItems : InvAddItem(item)
    \/ \E item \in UnitItems : InvRemoveItem(item)
    \/ \E item \in UnitItems : InvEquip(item)
    \/ \E slot \in Slots : InvUnequip(slot)

SpecInv == InitInv /\ [][NextInv]_vars

\* ------------------------------------------------------------------------
\* SpecDamage: one combatant on its own, a Player (game.js 159-261) or an
\* Enemy (game.js 267-315), and any sequence of takeDamage(amount) calls
\* on it.  unit holds the combatant before the last call (before) and after
\* it (after), each as [player, enemy] with the other side left at its
\* default, the amount passed and the value returned (result).
\* ------------------------------------------------------------------------

\* the players the calls start from: new Player(), one level up, with an
\* armor added and equipped, and braced as the ambush choice does (+3
\* temporary defense, game.js 615)
UnitPlayers ==
    LET armored(p, a) == WithInventory(p, equip(addItem(p.inventory, a), a))
        braced(p)     == [p EXCEPT !.tempStats.defense = p.tempStats.defense + 3]
        plain         == {NewPlayer, levelUp(NewPlayer)}
        dressed       == plain \cup
                         { armored(p, a) : p \in plain,
                                           a \in {"leatherArmor", "chainmail", "crystalPlate"} }
    IN  dressed \cup { braced(p) : p \in dressed }

\* the enemies the calls start from: every template at the levels 1..MaxUnitLevel
UnitEnemies ==
    { NewEnemy(1, kind, level) : kind \in EnemyKinds, level \in 1..MaxUnitLevel }

\* the amounts passed: none or less, the ones around every mitigation, large
DamageAmounts == {-2, 0, 1, 2, 3, 4, 5, 6, 7, 8, 25, 60}

InitDamage ==
    /\ InitGame
    /\ \/ \E p \in UnitPlayers :
             unit = [op |-> "new", who |-> "player", amount |-> 0, result |-> 0,
                     before |-> [player |-> p, enemy |-> NullEnemy],
                     after  |-> [player |-> p, enemy |-> NullEnemy]]
       \/ \E e \in UnitEnemies :
             unit = [op |-> "new", who |-> "enemy", amount |-> 0, result |-> 0,
                     before |-> [player |-> NewPlayer, enemy |-> e],
                     after  |-> [player |-> NewPlayer, enemy |-> e]]

\* player.takeDamage(amount)
PlayerTakesDamage(amount) ==
    /\ unit.who = "player"
    /\ unit' = [op |-> "takeDamage", who |-> "player", amount |-> amount,
                result |-> PlayerDamageTaken(unit.after.player, amount),
                before |-> unit.after,
                after  |-> [unit.after EXCEPT
                              !.player = PlayerTakeDamage(unit.after.player, amount)]]
    /\ UNCHANGED GameVars

\* enemy.takeDamage(amount)
EnemyTakesDamage(amount) ==
    /\ unit.who = "enemy"
    /\ unit' = [op |-> "takeDamage", who |-> "enemy", amount |-> amount,
                result |-> EnemyDamageTaken(unit.after.enemy, amount),
                before |-> unit.after,
                after  |-> [unit.after EXCEPT
                              !.enemy = EnemyTakeDamage(unit.after.enemy, amount)]]
    /\ UNCHANGED GameVars

NextDamage ==
    \/ \E amount \in DamageAmounts : PlayerTakesDamage(amount)
    \/ \E amount \in DamageAmounts : EnemyTakesDamage(amount)

SpecDamage == InitDamage /\ [][NextDamage]_vars

\* ------------------------------------------------------------------------
\* SpecPlayer: a Player on its own (game.js 159-261) and any sequence of
\* levelUp() and allocateStat(stat) calls on it, with recognized and
\* unrecognized stat names.  unit holds the player before the last call
\* (before) and after it (after), the call (op, arg) and, for allocateStat,
\* the value it returned (ok).
\* ------------------------------------------------------------------------

\* the players the calls start from: new Player(), and a player who has put
\* on a chainmail, braced for the ambush (game.js 615), earned 50 xp and
\* taken a hit of 40
PlayerStarts ==
    LET armored == WithInventory(NewPlayer,
                       equip(addItem(NewPlayer.inventory, "chainmail"), "chainmail"))
        braced  == [armored EXCEPT !.tempStats.defense = armored.tempStats.defense + 3]
    IN  {NewPlayer, PlayerTakeDamage(addXP(braced, 50), 40)}

\* the names passed to allocateStat: the four base stats, another field of
\* the player, and a name the player does not have
StatArgs == StatNames \cup {"health", "luck"}

PlayerCall(op, arg, ok, p) ==
    /\ unit' = [op |-> op, arg |-> arg, ok |-> ok, before |-> unit.after, after |-> p]
    /\ UNCHANGED GameVars

InitPlayer ==
    /\ InitGame
    /\ \E p \in PlayerStarts :
          unit = [op |-> "new", arg |-> Null, ok |-> TRUE, before |-> p, after |-> p]

\* player.levelUp()
PlayerLevelUp ==
    /\ unit.after.level < MaxUnitPlayerLevel
    /\ PlayerCall("levelUp", Null, TRUE, levelUp(unit.after))

\* player.allocateStat(stat)
PlayerAllocateStat(stat) ==
    PlayerCall("allocateStat", stat, allocateStatOk(unit.after, stat),
               allocateStat(unit.after, stat))

NextPlayer ==
    \/ PlayerLevelUp
    \/ \E stat \in StatArgs : PlayerAllocateStat(stat)

SpecPlayer == InitPlayer /\ [][NextPlayer]_vars

\* ------------------------------------------------------------------------
\* SpecCombat: a CombatSystem on its own (game.js 379-478): startCombat with
\* any of a set of players and enemies, and between the encounters the
\* turns (endTurn) and log entries (addLog) that leave their traces in it.
\* unit holds the combat system before the last call (before) and after it
\* (cs), the call (op) and the player and the enemy passed to startCombat.
\* ------------------------------------------------------------------------

\* the players of the encounters: new Player(), one level up, and with the
\* lucky coin, the shadow dagger or both added and equipped
CombatPlayers ==
    LET wearing(p, a) == WithInventory(p, equip(addItem(p.inventory, a), a))
        coin   == wearing(NewPlayer, "luckyCoin")
        dagger == wearing(NewPlayer, "shadowDagger")
    IN  {NewPlayer, levelUp(NewPlayer), coin, dagger, wearing(coin, "shadowDagger")}

CombatCall(op, p, e, cs) ==
    /\ unit' = [op |-> op, player |-> p, enemy |-> e, before |-> unit.cs, cs |-> cs]
    /\ UNCHANGED GameVars

InitCombat ==
    /\ InitGame
    /\ unit = [op |-> "new", player |-> NewPlayer, enemy |-> NullEnemy,
               before |-> NewGame.combatSystem, cs |-> NewGame.combatSystem]

\* combatSystem.startCombat(player, enemy)
CombatStartCall(p, e) == CombatCall("startCombat", p, e, CombatStart(unit.cs, p, e))

\* combatSystem.endTurn()
CombatEndTurn ==
    /\ unit.cs.turnCount < MaxUnitTurns
    /\ CombatCall("endTurn", NewPlayer, NullEnemy, endTurn(unit.cs))

\* combatSystem.addLog(message)
CombatAddLog == CombatCall("addLog", NewPlayer, NullEnemy, addLog(unit.cs))

NextCombat ==
    \/ \E p \in CombatPlayers : \E e \in UnitEnemies : CombatStartCall(p, e)
    \/ CombatEndTurn
    \/ CombatAddLog

SpecCombat == InitCombat /\ [][NextCombat]_vars

\* ------------------------------------------------------------------------
\* SpecEndCombat: Game.endCombat on its own (game.js 919-948), called at the
\* end of an encounter of either path: endCombat(true) once the enemy is
\* dead, endCombat(false) after a successful escape from a living one.  The
\* player comes to the encounter with the temporary stats the path can have
\* given by then: +3 defense from the ambush choice (game.js 615) in the
\* encounter after it, +5 strength from a strength elixir (game.js 76-79),
\* the loot of the dark mage of the first encounter.  unit holds the game
\* before the call (before) and after it (after) and the argument (won).
\* ------------------------------------------------------------------------

\* the temporary stats the player can have in the encounter at index
EndCombatTemps(path, index) ==
    LET braced == [NoStats EXCEPT !.defense = 3]
        elixir == [NoStats EXCEPT !.strength = 5]
    IN  IF path = "light" \/ index = 2 THEN {NoStats}
        ELSE IF index = 4
        THEN {NoStats, braced, elixir, [braced EXCEPT !.strength = 5]}
        ELSE {NoStats, elixir}

\* the game in the encounter of the node at index of the path, the enemy
\* type drawn by r: the node is entered by proceedToNextScenario and the
\* encounter begun by startCombat; dead tells whether the enemy has been
\* brought to 0 health
EndCombatGame(path, index, r, temp, xp, dead) ==
    LET chosen  == [startGame(NewGame) EXCEPT
                       !.player.chosenPath = path,
                       !.player.xp = xp,
                       !.scenarioManager = [currentPath |-> path,
                                            scenarioIndex |-> index - 1]]
        entered == proceedToNextScenario(chosen, r)
        braced  == [entered EXCEPT !.player.tempStats = temp]
        fought  == startCombat(braced, braced.currentScenario.enemy)
    IN  IF dead
        THEN SetEnemy(fought, [fought.currentEnemy EXCEPT !.health = 0])
        ELSE fought

EndCombatGames ==
    { EndCombatGame(path, index, r, temp, xp, dead) :
        path \in {"light", "shadow"}, index \in {2, 4, 5}, r \in RandomValues,
        temp \in UNION { EndCombatTemps(q, i) : q \in {"light", "shadow"},
                                                 i \in {2, 4, 5} },
        xp \in {0, calculateXPForLevel(2) - 1}, dead \in BOOLEAN }

InitEndCombat ==
    /\ InitGame
    /\ \E g \in EndCombatGames :
          /\ g.player.tempStats \in
                EndCombatTemps(g.scenarioManager.currentPath,
                               g.scenarioManager.scenarioIndex)
          /\ unit = [op |-> "startCombat", won |-> FALSE, before |-> g, after |-> g]

EndCombatCall(won, rLoot, rNext) ==
    /\ unit.op = "startCombat"
    /\ unit' = [op |-> "endCombat", won |-> won, before |-> unit.after,
                after |-> endCombat(unit.after, won, rLoot, rNext)]
    /\ UNCHANGED GameVars

\* checkCombatEnd finds the enemy dead: endCombat(true)
EndCombatWon ==
    /\ ~EnemyIsAlive(unit.after.currentEnemy)
    /\ \E rLoot, rNext \in RandomValues : EndCombatCall(TRUE, rLoot, rNext)

\* attemptEscape returned true: endCombat(false)
EndCombatEscaped ==
    /\ EnemyIsAlive(unit.after.currentEnemy)
    /\ \E rNext \in RandomValues : EndCombatCall(FALSE, 0, rNext)

NextEndCombat == EndCombatWon \/ EndCombatEscaped

SpecEndCombat == InitEndCombat /\ [][NextEndCombat]_vars

\* ------------------------------------------------------------------------
\* SpecChoice: the playthroughs of SpecDefeat, and next to them the effects
\* of the narrative choices (game.js 492-637) applied on their own to a
\* player of any health.  In a playthrough the shrine and the ritual are
\* the first node of their path and meet the player at full health; the
\* direct calls meet players at the healths around their costs.  unit holds
\* the last direct call: the node (id), the choice (index), the player
\* before (before) and after it (after); it is NoUnit during a playthrough.
\* ------------------------------------------------------------------------

NarrativeNodes == {"entrance", "lightShrine", "lightTreasure", "shadowRitual", "shadowAmbush"}

\* the healths of the players of the direct calls
ChoiceHealths == {1, 5, 10, 11, 15, 20, 21, 100}

ChoiceKeyPress(key) == unit = NoUnit /\ DefeatKeyPress(key)

ChoiceEnemyTurnTimer == unit = NoUnit /\ DefeatEnemyTurnTimer

\* choices[index].action(game) on the node id with the player at health
ChoiceCall(id, index, health, r) ==
    LET g == [startGame(NewGame) EXCEPT !.player.health = health,
                                        !.currentScenario = Narrative(id)]
    IN  /\ state = "MENU"
        /\ index \in 0..(ChoiceCount(id) - 1)
        /\ unit' = [op |-> "choice", id |-> id, index |-> index,
                    before |-> g.player,
                    after |-> ChoiceAction(g, id, index, r).player]
        /\ UNCHANGED GameVars

NextChoice ==
    \/ \E key \in Keys : ChoiceKeyPress(key)
    \/ ChoiceEnemyTurnTimer
    \/ \E id \in NarrativeNodes, index \in 0..2, health \in ChoiceHealths,
          r \in RandomValues : ChoiceCall(id, index, health, r)

SpecChoice == Init /\ [][NextChoice]_vars

\* ------------------------------------------------------------------------
\* Claims
\* ------------------------------------------------------------------------

\* C1: in every reachable state of a playthrough the player and the current
\* enemy each satisfy 0 <= health <= maxHealth.
C1_HealthWithinBounds ==
    /\ 0 <= player.health /\ player.health <= player.maxHealth
    /\ currentEnemy # NullEnemy =>
          (0 <= currentEnemy.health /\ currentEnemy.health <= currentEnemy.maxHealth)

\* a player who paid the shrine's 10 HP and then drank the only health
\* potion is back at maxHealth, not above it
C1_Witness ==
    /\ player.baseStats.intelligence = 7
    /\ ~Includes(player.inventory.items, "healthPotion")
    /\ player.health = player.maxHealth

\* C2: after any sequence of addItem / removeItem / equip / unequip calls, no
\* item that occupies an equip slot also appears in the held list.
C2_EquippedNotHeld ==
    \A slot \in Slots :
        unit.inv.equipped[slot] # Null
            => ~Includes(unit.inv.items, unit.inv.equipped[slot])

\* C3: when the inventory screen is closed with cancel or toggle-inventory
\* the game returns to the state it was opened from: for every step that
\* opens the inventory, each closing key then leads back to combat (same
\* enemy, still the player's turn) if the step left combat, and to exploring
\* if it left exploring.
C3_CloseReturnsToOpener ==
    [][(state # "INVENTORY" /\ state' = "INVENTORY") =>
          \A key \in {"Escape", "i", "I"} :
              \A g \in KeyOutcomes(Game', key, Draws) :
                  IF state = "COMBAT"
                  THEN /\ g.state = "COMBAT"
                       /\ g.currentEnemy = currentEnemy
                       /\ g.combatSystem.playerTurn
                  ELSE g.state = "EXPLORING"]_vars

\* C4: whenever the game is in combat on the enemy's turn with both
\* combatants alive, the first turn of an enemy that wins first strike
\* included, exactly one enemy-turn callback is pending.
C4_EnemyTurnScheduled ==
    (/\ state = "COMBAT"
     /\ ~combatSystem.playerTurn
     /\ PlayerIsAlive(player)
     /\ EnemyIsAlive(currentEnemy))
        => timers = 1

\* C5: on the Path of Light every step of the sequence leads to the next
\* one: choosing the path at the entrance leads to the first narrative node,
\* passing a narrative node leads to the encounter after it, defeating a
\* generic encounter (the step in combat that earns its xp) leads to the node
\* after it, and defeating the boss ends in state victory with the recorded
\* path equal to light.
C5_LightPathVictory ==
    [][LET index == scenarioManager.scenarioIndex
           advances == /\ state' = "SCENARIO"
                       /\ scenarioManager' = [currentPath |-> "light",
                                              scenarioIndex |-> index + 1]
                       /\ currentScenario'.id = lightPathSequence[index + 1]
       IN  /\ (/\ state = "SCENARIO" /\ currentScenario.id = "entrance"
               /\ scenarioManager'.currentPath = "light")
                  => (advances /\ player'.chosenPath = "light")
           /\ (/\ scenarioManager.currentPath = "light"
               /\ state = "SCENARIO" /\ ~currentScenario.combat
               /\ currentScenario' # currentScenario)
                  => (advances /\ currentScenario'.combat)
           /\ (/\ scenarioManager.currentPath = "light"
               /\ state = "COMBAT" /\ ~currentScenario.isBoss
               /\ player'.xp > player.xp)
                  => advances
           /\ (/\ scenarioManager.currentPath = "light"
               /\ state = "COMBAT" /\ currentScenario.isBoss
               /\ player'.xp > player.xp)
                  => /\ state' = "VICTORY"
                     /\ gameResult' = "Light"
                     /\ player'.chosenPath = "light"
                     /\ scenarioManager'.currentPath = "light"
                     /\ index = 5
                     /\ ~EnemyIsAlive(currentEnemy')]_vars

\* the victory of a player who took the Path of Light and defeated the
\* Light Guardian
C5_Witness ==
    /\ state = "VICTORY"
    /\ player.chosenPath = "light"
    /\ currentEnemy.kind = "lightGuardian"
    /\ currentEnemy.health = 0
    /\ player.xp \in {130, 153, 176, 160, 183, 206}

\* what getNextScenario does when called on the game g: with no path chosen
\* it returns the entrance and leaves the index alone; on a path it returns
\* null exactly when the index equals the sequence length, leaving the
\* index unchanged, and otherwise the node at the index, advancing by one
C6_NodeReturned(g) ==
    LET index == g.scenarioManager.scenarioIndex
        after == getNextScenarioGame(g).scenarioManager.scenarioIndex
    IN  \A r \in RandomValues :
            IF g.scenarioManager.currentPath = Null
            THEN getNextScenario(g, r) = Narrative("entrance") /\ after = index
            ELSE LET sequence == PathSequence(g.scenarioManager.currentPath)
                 IN  /\ Len(sequence) = 5
                     /\ (getNextScenario(g, r) = NullScenario) <=> (index = 5)
                     /\ index = 5 => after = index
                     /\ index # 5 =>
                           /\ after = index + 1
                           /\ getNextScenario(g, r).id = sequence[index + 1]

\* C6: within one playthrough scenarioIndex never decreases (it returns to 0
\* only when the game goes back to the menu) and a step raises it by at most
\* one node; 0 <= scenarioIndex <= 5 in every state; and in every state
\* (the menu the playthrough starts from and the state after every step)
\* getNextScenario behaves as C6_NodeReturned says.
C6_IndexMonotone ==
    [][/\ scenarioManager'.scenarioIndex \in 0..5
       /\ scenarioManager'.scenarioIndex < scenarioManager.scenarioIndex
             => (state' = "MENU" /\ scenarioManager'.scenarioIndex = 0)
       /\ scenarioManager'.scenarioIndex >= scenarioManager.scenarioIndex
             => scenarioManager'.scenarioIndex
                   \in {scenarioManager.scenarioIndex,
                        scenarioManager.scenarioIndex + 1}
       /\ state = "MENU" => C6_NodeReturned(Game)
       /\ C6_NodeReturned(Game')]_vars

\* the sequence is exhausted: the index stands at 5 and the completion
\* signal has led to victory
C6_Witness ==
    /\ scenarioManager.scenarioIndex = 5
    /\ scenarioManager.currentPath # Null
    /\ state = "VICTORY"

\* C7: in every state observable between events, player.health = 0 implies
\* state = gameOver: the step whose combat action leaves the player's health
\* at 0 is the step that enters gameOver, whatever the enemy's health and
\* whoever owns the turn.
C7_DeadMeansGameOver ==
    player.health = 0 => (state = "GAME_OVER" /\ gameResult = "defeat")

\* the player dies to an enemy the player has already hurt, in a later
\* encounter of the playthrough
C7_Witness ==
    /\ player.health = 0
    /\ state = "GAME_OVER"
    /\ currentEnemy.health < currentEnemy.maxHealth
    /\ EnemyIsAlive(currentEnemy)
    /\ player.xp > 0

\* C8: while the game is in combat on the enemy's turn (an enemy-turn
\* callback is pending), every input event (up, down, confirm, cancel,
\* toggle-inventory), whatever it draws, leaves the state tag, the player,
\* the enemy, the selection cursor, the turn owner and the turn counter
\* unchanged.
C8_InputIgnoredOnEnemyTurn ==
    (state = "COMBAT" /\ ~combatSystem.playerTurn) =>
        \A key \in Keys :
            \A g \in KeyOutcomes(Game, key, Draws) :
                /\ g.state = state
                /\ g.player = player
                /\ g.currentEnemy = currentEnemy
                /\ g.currentScenario = currentScenario
                /\ g.selectedOption = selectedOption
                /\ g.combatSystem.playerTurn = combatSystem.playerTurn
                /\ g.combatSystem.turnCount = combatSystem.turnCount
                /\ g.timers = timers

\* the player has attacked with the cursor moved off Attack, both are alive
\* and the callback of the enemy's turn is pending
C8_Witness ==
    /\ state = "COMBAT"
    /\ ~combatSystem.playerTurn
    /\ timers = 1
    /\ combatSystem.turnCount = 1
    /\ selectedOption = 1
    /\ currentEnemy.health < currentEnemy.maxHealth

\* C9: turns alternate strictly.  A step in combat on the player's turn that
\* resolves an action (the turn counter moves) and leaves the game in combat
\* hands the turn to the enemy with exactly one callback pending; the only
\* step possible on the enemy's turn is that callback, which resolves one
\* enemy turn and hands the turn back with no callback pending; and after
\* each resolution the combat-end check has run: the game stays in combat
\* only with both combatants alive, a dead player means gameOver, and no
\* callback outlives the encounter.
C9_TurnsAlternate ==
    [][LET playerResolves == /\ state = "COMBAT" /\ combatSystem.playerTurn
                             /\ combatSystem'.turnCount # combatSystem.turnCount
           enemyTurnStep  == /\ state = "COMBAT" /\ ~combatSystem.playerTurn
                             /\ Game' # Game
           resolved       == playerResolves \/ enemyTurnStep
       IN  /\ (state = "COMBAT" /\ combatSystem.playerTurn) => timers = 0
           /\ playerResolves =>
                 /\ combatSystem'.turnCount = combatSystem.turnCount + 1
                 /\ state' = "COMBAT" =>
                       /\ ~combatSystem'.playerTurn
                       /\ timers' = 1
           /\ enemyTurnStep =>
                 /\ timers = 1 /\ timers' = 0
                 /\ combatSystem'.turnCount = combatSystem.turnCount + 1
                 /\ currentEnemy' = currentEnemy
                 /\ combatSystem'.playerTurn
                 /\ state' \in {"COMBAT", "GAME_OVER"}
           /\ resolved =>
                 /\ state' = "COMBAT" =>
                       (PlayerIsAlive(player') /\ EnemyIsAlive(currentEnemy'))
                 /\ ~PlayerIsAlive(player') => state' = "GAME_OVER"
                 /\ state' # "COMBAT" => timers' = 0]_vars

\* a full round: the player has resolved an action that left both alive,
\* the enemy has resolved its turn, and the turn is the player's again
C9_Witness ==
    /\ state = "COMBAT"
    /\ combatSystem.playerTurn
    /\ combatSystem.turnCount = 2
    /\ timers = 0
    /\ PlayerIsAlive(player)
    /\ EnemyIsAlive(currentEnemy)

\* the effective defense of the combatant a takeDamage call acted on
C10_Defense ==
    IF unit.who = "player"
    THEN unit.before.player.baseStats.defense
           + getEquippedStats(unit.before.player.inventory).defense
           + unit.before.player.tempStats.defense
    ELSE StatsOf(unit.before.enemy).defense

\* C10: takeDamage(raw) on a player or an enemy returns
\* finalDamage = max(1, raw - floor(effectiveDefense * 0.5)) and sets health
\* to max(0, oldHealth - finalDamage), changing nothing else; so
\* finalDamage >= 1 and health >= 0 for every raw amount and defense.
C10_TakeDamage ==
    unit.op = "takeDamage" =>
        LET mitigation  == CHOOSE k \in 0..C10_Defense :
                               2 * k <= C10_Defense /\ C10_Defense < 2 * k + 2
            reduced     == unit.amount - mitigation
            finalDamage == IF reduced >= 1 THEN reduced ELSE 1
            oldHealth   == IF unit.who = "player" THEN unit.before.player.health
                           ELSE unit.before.enemy.health
            left        == IF oldHealth - finalDamage >= 0
                           THEN oldHealth - finalDamage ELSE 0
        IN  /\ unit.result = finalDamage
            /\ unit.result >= 1
            /\ IF unit.who = "player"
               THEN unit.after = [unit.before EXCEPT !.player.health = left]
               ELSE unit.after = [unit.before EXCEPT !.enemy.health = left]
            /\ unit.after.player.health >= 0
            /\ unit.after.enemy.health >= 0

\* an armored player took a raw amount below the mitigation and lost 1 HP
C10_Witness ==
    /\ unit.op = "takeDamage"
    /\ unit.who = "player"
    /\ unit.before.player.inventory.equipped.armor = "chainmail"
    /\ unit.amount = 0
    /\ unit.result = 1
    /\ unit.before.player.health = 1
    /\ unit.after.player.health = 0

\* C11: allocateStat(stat) succeeds only if statPoints > 0 and stat is one
\* of the four base stats, and then raises that base stat by 1 and lowers
\* statPoints by 1, changing nothing else; otherwise it returns failure and
\* leaves the player unchanged.  After any sequence of levelUp and
\* allocateStat calls statPoints >= 0.
C11_AllocateStat ==
    /\ unit.after.statPoints >= 0
    /\ unit.op = "allocateStat" =>
          LET recognized == unit.arg \in {"strength", "defense", "agility", "intelligence"}
          IN  /\ unit.ok <=> (unit.before.statPoints > 0 /\ recognized)
              /\ unit.ok =>
                    /\ unit.after.statPoints = unit.before.statPoints - 1
                    /\ \A s \in DOMAIN unit.before.baseStats :
                          unit.after.baseStats[s] =
                              unit.before.baseStats[s] + (IF s = unit.arg THEN 1 ELSE 0)
                    /\ [unit.after EXCEPT !.statPoints = 0, !.baseStats = NoStats]
                          = [unit.before EXCEPT !.statPoints = 0, !.baseStats = NoStats]
              /\ ~unit.ok => unit.after = unit.before

\* a player who levelled up and spent every point asks for one more
C11_Witness ==
    /\ unit.op = "allocateStat"
    /\ unit.arg = "strength"
    /\ ~unit.ok
    /\ unit.before.level = 2
    /\ unit.before.statPoints = 0
    /\ unit.before.baseStats.strength = 9

\* C12: each call of levelUp changes the player by exactly level + 1,
\* statPoints + 3, each of the four base stats + 1, maxHealth + 10 and
\* health set to the new maxHealth; xp, tempStats and inventory are
\* unchanged.
C12_LevelUp ==
    unit.op = "levelUp" =>
        /\ unit.after.level = unit.before.level + 1
        /\ unit.after.statPoints = unit.before.statPoints + 3
        /\ \A s \in {"strength", "defense", "agility", "intelligence"} :
              unit.after.baseStats[s] = unit.before.baseStats[s] + 1
        /\ DOMAIN unit.after.baseStats = DOMAIN unit.before.baseStats
        /\ unit.after.maxHealth = unit.before.maxHealth + 10
        /\ unit.after.health = unit.after.maxHealth
        /\ unit.after.xp = unit.before.xp
        /\ unit.after.tempStats = unit.before.tempStats
        /\ unit.after.inventory = unit.before.inventory
        /\ unit.after.chosenPath = unit.before.chosenPath

\* the level-up of a hurt player who wears an armor, is braced and has xp
C12_Witness ==
    /\ unit.op = "levelUp"
    /\ unit.before.health = 67
    /\ unit.before.xp = 50
    /\ unit.before.tempStats.defense = 3
    /\ unit.before.inventory.equipped.armor = "chainmail"
    /\ unit.after.health = 110

\* C13: for every inventory state and every held equippable item X, equip(X)
\* followed by unequip(slot of X) leaves X in the held list and that slot
\* empty: both calls succeed, and after the second X is held and the slot
\* is empty.
C13_EquipUnequipRoundTrip ==
    [][(/\ unit.op = "equip"
        /\ Includes(unit.before.items, unit.arg)
        /\ ItemType(unit.arg) \in {"weapon", "armor", "artifact"}
        /\ unit'.op = "unequip"
        /\ unit'.arg = ItemType(unit.arg))
          => /\ unit.ok
             /\ unit.inv.equipped[ItemType(unit.arg)] = unit.arg
             /\ unit'.ok
             /\ Includes(unit'.inv.items, unit.arg)
             /\ unit'.inv.equipped[ItemType(unit.arg)] = Null]_vars

\* the flame blade is back in a held list that is full again, its slot is
\* empty, and the weapon it had replaced is held as well
C13_Witness ==
    /\ unit.op = "unequip"
    /\ unit.arg = "weapon"
    /\ unit.before.equipped.weapon = "flameBlade"
    /\ unit.inv.equipped.weapon = Null
    /\ Includes(unit.inv.items, "flameBlade")
    /\ Includes(unit.inv.items, "ironSword")
    /\ Len(unit.inv.items) = unit.inv.maxSlots

\* C14: addItem returns failure and leaves the inventory unchanged when the
\* held list is at capacity, and otherwise returns success and appends the
\* item at the end, keeping the others in their order; after any sequence of
\* addItem / removeItem / equip / unequip calls the held list is never
\* longer than maxSlots.
C14_AddItemCapacity ==
    /\ Len(unit.inv.items) <= unit.inv.maxSlots
    /\ unit.op = "addItem" =>
          IF Len(unit.before.items) = unit.before.maxSlots
          THEN ~unit.ok /\ unit.inv = unit.before
          ELSE /\ unit.ok
               /\ Len(unit.inv.items) = Len(unit.before.items) + 1
               /\ unit.inv.items[Len(unit.inv.items)] = unit.arg
               /\ \A i \in 1..Len(unit.before.items) :
                     unit.inv.items[i] = unit.before.items[i]
               /\ unit.inv.equipped = unit.before.equipped
               /\ unit.inv.maxSlots = unit.before.maxSlots

\* an item is refused by a held list of three that is full
C14_Witness ==
    /\ unit.op = "addItem"
    /\ ~unit.ok
    /\ unit.before.maxSlots = 3
    /\ Len(unit.before.items) = 3
    /\ unit.inv.items = unit.before.items

\* C15: equip(item) returns failure and leaves the held list and all three
\* equip slots unchanged when the item is not in the held list or when the
\* item is a consumable.
C15_EquipFailure ==
    (/\ unit.op = "equip"
     /\ \/ ~(\E i \in 1..Len(unit.before.items) : unit.before.items[i] = unit.arg)
        \/ ItemType(unit.arg) = "consumable")
        => /\ ~unit.ok
           /\ unit.inv.items = unit.before.items
           /\ \A slot \in {"weapon", "armor", "artifact"} :
                 unit.inv.equipped[slot] = unit.before.equipped[slot]

\* a held health potion is not equipped, next to a weapon in its slot
C15_Witness ==
    /\ unit.op = "equip"
    /\ unit.arg = "healthPotion"
    /\ Includes(unit.before.items, "healthPotion")
    /\ unit.before.equipped.weapon = "ironSword"
    /\ ~unit.ok
    /\ unit.inv = unit.before

\* twice the effective agility (base + equipped + temporary) of the player
\* passed to startCombat
C16_PlayerAgility2 ==
    LET inv == unit.player.inventory
        worn(slot) == IF inv.equipped[slot] = Null THEN 0
                      ELSE ItemEffect(inv.equipped[slot]).agility
    IN  2 * (unit.player.baseStats.agility
               + worn("weapon") + worn("armor") + worn("artifact")
               + unit.player.tempStats.agility)

\* C16: startCombat resets the combat log (to the entries of the new
\* encounter: its start and, for the enemy, the first strike) and the turn
\* counter to 0, and gives the first turn to the enemy exactly when the
\* enemy's agility is strictly greater than the player's effective agility;
\* on a tie or a lower enemy agility the player owns the first turn.
C16_StartCombat ==
    unit.op = "startCombat" =>
        LET enemyFirst == EnemyStats(unit.enemy.kind, unit.enemy.level).agility2
                              > C16_PlayerAgility2
        IN  /\ unit.cs.turnCount = 0
            /\ unit.cs.playerTurn <=> ~enemyFirst
            /\ unit.cs.combatLog = IF enemyFirst THEN 2 ELSE 1

\* a tie: the Dark Mage of level 2 (agility 7) against the player with the
\* lucky coin (5 + 2), in a combat system that carries an earlier encounter
C16_Witness ==
    /\ unit.op = "startCombat"
    /\ unit.enemy.kind = "darkMage" /\ unit.enemy.level = 2
    /\ unit.player.inventory.equipped.artifact = "luckyCoin"
    /\ unit.player.inventory.equipped.weapon = Null
    /\ unit.before.turnCount = 3
    /\ unit.before.combatLog = 8
    /\ ~unit.before.playerTurn
    /\ unit.cs = [combatLog |-> 1, playerTurn |-> TRUE, turnCount |-> 0]

\* C17: a successful escape (the step that leaves combat with the cursor on
\* Escape) gives no reward: the player's xp, level, statPoints, health and
\* inventory are the same after it as before, the enemy is discarded, and
\* the game moves to the next node of the path.
C17_EscapeNoReward ==
    [][(/\ state = "COMBAT" /\ combatSystem.playerTurn
        /\ selectedOption = 3
        /\ state' # "COMBAT")
          => /\ player'.xp = player.xp
             /\ player'.level = player.level
             /\ player'.statPoints = player.statPoints
             /\ player'.health = player.health
             /\ player'.inventory = player.inventory
             /\ currentEnemy' = NullEnemy
             /\ state' = "SCENARIO"
             /\ scenarioManager'.scenarioIndex = scenarioManager.scenarioIndex + 1
             /\ currentScenario'.id =
                   PathSequence(scenarioManager.currentPath)
                       [scenarioManager'.scenarioIndex]]_vars

\* C18: confirming the combat action Use Item switches the state to
\* inventory and leaves the turn owner, the turn counter, the player (so
\* the player's health), the enemy (so the enemy's health) and the pending
\* callbacks unchanged: no enemy turn is scheduled.
C18_UseItemKeepsTurn ==
    (state = "COMBAT" /\ combatSystem.playerTurn /\ selectedOption = 2) =>
        \A g \in KeyOutcomes(Game, "Enter", Draws) :
            /\ g.state = "INVENTORY"
            /\ g.combatSystem.playerTurn
            /\ g.combatSystem.turnCount = combatSystem.turnCount
            /\ g.player.health = player.health
            /\ g.player = player
            /\ g.currentEnemy.health = currentEnemy.health
            /\ g.currentEnemy = currentEnemy
            /\ timers = 0 /\ g.timers = 0

\* the inventory opened in the second round of an encounter with a hurt
\* enemy: still the player's turn, the counter at 2, no callback pending
C18_Witness ==
    /\ state = "INVENTORY"
    /\ selectedOption = 2
    /\ combatSystem.playerTurn
    /\ combatSystem.turnCount = 2
    /\ timers = 0
    /\ EnemyIsAlive(currentEnemy)
    /\ currentEnemy.health < currentEnemy.maxHealth

\* C19: the path is chosen once per playthrough and then fixed.  The path
\* marker of the sequencer and the one of the player change only together,
\* either from unset to light or shadow by the confirmed entrance choice (the
\* first choice light, the second shadow) or back to unset by the reset
\* from gameOver or victory; whenever a path is set the two markers are
\* equal and the current scenario is not the entrance.
C19_PathChosenOnce ==
    [][LET path == scenarioManager.currentPath
           chosen == /\ path = Null /\ player.chosenPath = Null
                     /\ state = "SCENARIO" /\ currentScenario.id = "entrance"
                     /\ scenarioManager'.currentPath =
                           (IF selectedOption = 0 THEN "light" ELSE "shadow")
           cleared == /\ state \in {"GAME_OVER", "VICTORY"} /\ state' = "MENU"
                      /\ scenarioManager'.currentPath = Null
                      /\ player'.chosenPath = Null
       IN  /\ scenarioManager'.currentPath \in {Null, "light", "shadow"}
           /\ scenarioManager'.currentPath # path => (chosen \/ cleared)
           /\ player'.chosenPath # player.chosenPath => (chosen \/ cleared)
           /\ scenarioManager'.currentPath # Null =>
                 /\ player'.chosenPath = scenarioManager'.currentPath
                 /\ currentScenario'.id # "entrance"]_vars

\* two nodes past the entrance the path is the one chosen there
C19_Witness ==
    /\ state = "SCENARIO"
    /\ currentScenario.id = "lightTreasure"
    /\ scenarioManager.currentPath = "light"
    /\ player.chosenPath = "light"

\* the fresh Player of the claim: level 1, xp 0, health 100/100, base stats
\* 5, statPoints 0, no temporary stats, held list = Rusty Dagger and Health
\* Potion, empty equip slots, no path
C20_FreshPlayer ==
    [level |-> 1, xp |-> 0, health |-> 100, maxHealth |-> 100,
     baseStats |-> [strength |-> 5, defense |-> 5, agility |-> 5, intelligence |-> 5],
     statPoints |-> 0,
     tempStats |-> [strength |-> 0, defense |-> 0, agility |-> 0, intelligence |-> 0],
     inventory |-> [items |-> <<"rustyDagger", "healthPotion">>,
                    maxSlots |-> 15,
                    equipped |-> [weapon |-> Null, armor |-> Null, artifact |-> Null]],
     chosenPath |-> Null]

\* C20: the step that confirm takes in gameOver or victory resets the game
\* to the menu (fresh player, path unset, index 0, no enemy, no scenario,
\* empty message log, no result, no pending callback), and the step that
\* confirm takes in the menu starts a playthrough at the entrance node in
\* state scenario with a fresh player, path unset, index 0, empty message
\* log and selection 0, whatever happened in earlier playthroughs.
C20_ResetAndStart ==
    [][/\ (state \in {"GAME_OVER", "VICTORY"} /\ Game' # Game) =>
             /\ state' = "MENU"
             /\ player' = C20_FreshPlayer
             /\ scenarioManager' = [currentPath |-> Null, scenarioIndex |-> 0]
             /\ currentEnemy' = NullEnemy
             /\ currentScenario' = NullScenario
             /\ messageLog' = 0
             /\ gameResult' = Null
             /\ timers' = 0
       /\ (state = "MENU" /\ Game' # Game) =>
             /\ state' = "SCENARIO"
             /\ currentScenario' = Narrative("entrance")
             /\ player' = C20_FreshPlayer
             /\ scenarioManager' = [currentPath |-> Null, scenarioIndex |-> 0]
             /\ currentEnemy' = NullEnemy
             /\ messageLog' = 0
             /\ selectedOption' = 0
             /\ gameResult' = Null
             /\ timers' = 0]_vars

\* the entrance of a later playthrough: the combat system still carries the
\* log of the last encounter of the playthrough before
C20_Witness ==
    /\ state = "SCENARIO"
    /\ currentScenario.id = "entrance"
    /\ player = C20_FreshPlayer
    /\ selectedOption = 0
    /\ combatSystem.combatLog > 0

\* C21: in the inventory state the selection index points within the held
\* items: it is never negative, and it is less than the number of held
\* items whenever the held list is non-empty.
C21_SelectionWithinHeld ==
    state = "INVENTORY" =>
        /\ inventorySelection >= 0
        /\ Len(player.inventory.items) > 0 =>
               inventorySelection < Len(player.inventory.items)

\* C22: in scenario state on a narrative node the selection lies in
\* 0 .. choiceCount - 1 of that node, and in combat state it lies in 0 .. 3.
C22_SelectionWithinChoices ==
    /\ (state = "SCENARIO" /\ currentScenario # NullScenario
            /\ ~currentScenario.combat) =>
          selectedOption \in 0..(ChoiceCount(currentScenario.id) - 1)
    /\ state = "COMBAT" => selectedOption \in 0..3

\* the cursor on the last choice of the 3-choice node that follows the
\* first encounter of the light path
C22_Witness ==
    /\ state = "SCENARIO"
    /\ currentScenario.id = "lightTreasure"
    /\ combatSystem.combatLog > 0
    /\ selectedOption = 2

\* C23: temporary stats do not outlive the encounter.  When endCombat ends
\* the encounter of a non-boss node by a victory that does not level the
\* player up, or by a successful escape, the next scenario node is entered;
\* and whenever endCombat enters a scenario node, the player's temporary
\* stats are empty and the enemy is discarded.
C23_TempStatsCleared ==
    unit.op = "endCombat" =>
        /\ (/\ ~unit.before.currentScenario.isBoss
            /\ unit.won => unit.after.player.level = unit.before.player.level) =>
              /\ unit.after.state = "SCENARIO"
              /\ unit.after.scenarioManager.scenarioIndex =
                    unit.before.scenarioManager.scenarioIndex + 1
        /\ unit.after.state = "SCENARIO" =>
              /\ unit.after.player.tempStats = NoStats
              /\ getTotalStats(unit.after.player).defense =
                    unit.after.player.baseStats.defense
                       + getEquippedStats(unit.after.player.inventory).defense
              /\ unit.after.currentEnemy = NullEnemy

\* the second encounter of the shadow path, fought braced (+3 defense) and
\* with an elixir drunk (+5 strength), is won and the boss node entered
C23_Witness ==
    /\ unit.op = "endCombat"
    /\ unit.won
    /\ unit.before.player.tempStats.defense = 3
    /\ unit.before.player.tempStats.strength = 5
    /\ unit.after.state = "SCENARIO"
    /\ unit.after.currentScenario.isBoss
    /\ unit.after.player.tempStats = NoStats

\* the owner startCombat gives the first turn of the current encounter to
C24_FirstOwnerIsPlayer == CombatStart(combatSystem, player, currentEnemy).playerTurn

\* C24: startCombat begins an encounter with the turn counter at 0; within
\* the encounter the turn owner changes exactly in the steps that add 1 to
\* the turn counter (the calls of endTurn), and the counter changes in no
\* other way; hence, while there is a current enemy, the turn owner is the
\* first owner exactly when the turn counter is even.
C24_OwnerFollowsTurnCount ==
    [][/\ IF state # "COMBAT" /\ state' = "COMBAT"
          THEN /\ combatSystem'.turnCount = 0
               /\ combatSystem'.playerTurn =
                     CombatStart(combatSystem, player, currentEnemy').playerTurn
          ELSE /\ combatSystem'.turnCount \in
                     {combatSystem.turnCount, combatSystem.turnCount + 1}
               /\ (combatSystem'.playerTurn # combatSystem.playerTurn) <=>
                     (combatSystem'.turnCount = combatSystem.turnCount + 1)
       /\ currentEnemy' # NullEnemy =>
             ((combatSystem'.playerTurn = C24_FirstOwnerIsPlayer') <=>
                 (combatSystem'.turnCount % 2 = 0))]_vars

\* the second turn of an encounter the player began: the enemy's reply is
\* pending after one turn, the counter odd and the owner flipped
C24_Witness ==
    /\ state = "COMBAT"
    /\ C24_FirstOwnerIsPlayer
    /\ combatSystem.turnCount = 1
    /\ ~combatSystem.playerTurn
    /\ timers = 1

\* C25: the victory state is entered only after the boss encounter of the
\* chosen path has been won: in the victory state the current scenario is
\* the boss node and the current enemy is the boss of the path with its
\* health at 0.
C25_VictoryOnlyByBossWin ==
    state = "VICTORY" =>
        /\ currentScenario.isBoss
        /\ currentEnemy # NullEnemy
        /\ currentEnemy.kind =
              (IF scenarioManager.currentPath = "light"
               THEN "lightGuardian" ELSE "shadowLord")
        /\ currentEnemy.health = 0

\* C26: once the game is in exploring it never leaves the set {exploring,
\* inventory}: every step taken in exploring or in inventory, by a key
\* event or by a timer firing, ends in exploring or in inventory.
C26_ExploringIsFinal ==
    [][(state \in {"EXPLORING", "INVENTORY"}) =>
          (state' \in {"EXPLORING", "INVENTORY"})]_vars

\* exploring in the middle of an encounter: the enemy is alive, it is the
\* player's turn and no callback is pending
C26_Witness ==
    /\ state = "EXPLORING"
    /\ currentEnemy # NullEnemy
    /\ EnemyIsAlive(currentEnemy)
    /\ combatSystem.playerTurn
    /\ timers = 0

\* C27: in a playthrough the player's xp stays below the level-2 threshold
\* calculateXPForLevel(2) = 282, so the level stays 1, statPoints stays 0
\* and the levelUp state is never entered.
C27_NoLevelUpInPlay ==
    /\ calculateXPForLevel(2) = 282
    /\ player.xp < calculateXPForLevel(2)
    /\ player.level = 1
    /\ player.statPoints = 0
    /\ state # "LEVEL_UP"

\* the light path won with every reward taken: 206 xp, still level 1
C27_Witness ==
    /\ state = "VICTORY"
    /\ gameResult = "Light"
    /\ player.xp = 206
    /\ player.level = 1

\* C28: at most one enemy-turn callback is pending at any time, and while
\* one is pending the turn owner is the enemy, the game is in combat state
\* with a current enemy, and the enemy and the player are both alive; so
\* this is the state every callback fires in.
C28_OneCallbackOnEnemyTurn ==
    /\ timers \in {0, 1}
    /\ timers = 1 =>
          /\ ~combatSystem.playerTurn
          /\ state = "COMBAT"
          /\ currentEnemy # NullEnemy
          /\ EnemyIsAlive(currentEnemy)
          /\ PlayerIsAlive(player)

\* the callback pending after a hit of the player that the enemy survived
C28_Witness ==
    /\ timers = 1
    /\ state = "COMBAT"
    /\ ~combatSystem.playerTurn
    /\ currentEnemy.health > 0
    /\ currentEnemy.health < currentEnemy.maxHealth

\* C29: the player can die only in combat.  Every narrative choice leaves
\* the player's health at 1 or more, called on its own with a player of any
\* health (the shrine costs 10 and the ritual 10 to 20, each clamped at 1,
\* and no other choice lowers the health) and in every step of a
\* playthrough taken in scenario state; the player's health reaches 0, and
\* gameOver is entered, only in a step taken in combat state in which the
\* pending enemy-turn callback fires.
C29_DiesOnlyInCombat ==
    [][/\ unit'.op = "choice" =>
             /\ unit'.after.health >= 1
             /\ unit'.after.health >= unit'.before.health - 20
             /\ unit'.after.health < unit'.before.health =>
                   (unit'.index = 0 /\ unit'.id \in {"lightShrine", "shadowRitual"})
       /\ state = "SCENARIO" => (player'.health >= 1 /\ state' # "GAME_OVER")
       /\ ((state' = "GAME_OVER" /\ state # "GAME_OVER")
              \/ (player'.health = 0 /\ player.health > 0)) =>
             /\ state = "COMBAT" /\ state' = "GAME_OVER"
             /\ ~combatSystem.playerTurn
             /\ timers = 1 /\ timers' = 0
             /\ player.health > 0 /\ player'.health = 0]_vars

\* the player killed by the enemy's turn of an encounter
C29_Witness ==
    /\ state = "GAME_OVER"
    /\ gameResult = "defeat"
    /\ player.health = 0
    /\ currentEnemy # NullEnemy
    /\ EnemyIsAlive(currentEnemy)

\* the number of items the player has, held or equipped
C30_ItemCount(p) ==
    Len(p.inventory.items)
      + Cardinality({ slot \in Slots : p.inventory.equipped[slot] # Null })

\* C30: in a playthrough the held list stays below its capacity of 15 (the
\* player has at most 2 + 5 items), so no addItem fails: every encounter
\* won adds its loot item, and the number of items held plus equipped
\* decreases only by 1 in a step taken in inventory state with the
\* selection on a consumable (apart from the new player of a reset).
C30_NoItemDropped ==
    [][/\ player'.inventory.maxSlots = INVENTORY_SLOTS
       /\ Len(player'.inventory.items) < player'.inventory.maxSlots
       /\ C30_ItemCount(player') <= 2 + 5
       /\ (state = "COMBAT" /\ state' # "COMBAT" /\ player'.xp > player.xp) =>
             C30_ItemCount(player') = C30_ItemCount(player) + 1
       /\ (C30_ItemCount(player') < C30_ItemCount(player)
              /\ ~(state \in {"GAME_OVER", "VICTORY"} /\ state' = "MENU")) =>
             /\ state = "INVENTORY"
             /\ inventorySelection + 1 \in 1..Len(player.inventory.items)
             /\ ItemType(player.inventory.items[inventorySelection + 1]) = "consumable"
             /\ C30_ItemCount(player') = C30_ItemCount(player) - 1]_vars

\* six items before the boss, the flame blade equipped: the two starting
\* items, the potion of the shrine, the find of the treasure node and the
\* loot of two encounters
C30_Witness ==
    /\ state = "INVENTORY"
    /\ currentScenario.isBoss
    /\ C30_ItemCount(player) = 6
    /\ player.inventory.equipped.weapon = "flameBlade"

\* the enemy kinds of a path: its two generic enemies and its boss
C31_PathEnemies(path) ==
    IF path = "light" THEN {"goblin", "knight", "lightGuardian"}
    ELSE IF path = "shadow" THEN {"shadowBeast", "darkMage", "shadowLord"}
    ELSE {}

\* C31: whenever the game is in combat state, the current enemy is
\* non-null, is the enemy of the current scenario node, which is a combat
\* node, belongs to the enemy set of the chosen path, and has health > 0.
C31_CombatHasLivingPathEnemy ==
    state = "COMBAT" =>
        /\ currentEnemy # NullEnemy
        /\ currentScenario # NullScenario
        /\ currentScenario.combat
        /\ currentScenario.enemy = currentEnemy
        /\ currentEnemy.kind \in C31_PathEnemies(scenarioManager.currentPath)
        /\ currentScenario.isBoss <=>
              currentEnemy.kind \in {"lightGuardian", "shadowLord"}
        /\ currentEnemy.health > 0

\* the boss of the light path in combat, hurt by a hit of the player
C31_Witness ==
    /\ state = "COMBAT"
    /\ scenarioManager.currentPath = "light"
    /\ currentEnemy.kind = "lightGuardian"
    /\ currentScenario.enemy = currentEnemy
    /\ currentEnemy.health > 0
    /\ currentEnemy.health < currentEnemy.maxHealth

====
